---- MODULE Spec2Model ----
(***************************************************************************)
(* Model of the docker-machine drivers "google" (drivers/google) and       *)
(* "amazonec2" (drivers/amazonec2): the VM lifecycle handlers, the         *)
(* firewall / security-group reconcilers and the backends they talk to.    *)
(*                                                                         *)
(* A handler of the drivers is a pure operator from (driver object,        *)
(* backend state, environment inputs) to an outcome record holding the     *)
(* returned error, the backend state it leaves, the driver object it       *)
(* leaves and the list of backend API calls it issued, in order.  The      *)
(* actions apply one whole handler and append its outcome to `hist`.       *)
(* The environment inputs are the set `fails` of backend calls that        *)
(* answer with a (non not-found) error during the handler, and the         *)
(* iteration order Go picks for a map.                                     *)
(***************************************************************************)
EXTENDS Integers, Sequences, FiniteSets, TLC

VARIABLES
    driverName,   \* DriverName() of the driver chosen at process start
    d,            \* the Driver object (its persisted fields)
    swarmPort,    \* amazonec2 package variable swarmPort
    firewall,     \* google backend: the firewall rule object "docker-machines"
    instance,     \* google backend: the instance named d.MachineName
    disk,         \* google backend: TRUE iff the disk "<name>-disk" exists
    projectValid, \* google backend: Projects.Get(d.Project) succeeds
    groups,       \* ec2 backend: security groups of the VPC, by group name
    keyPairs,     \* ec2 backend: names of the imported key pairs
    ec2Instances, \* ec2 backend: instances, by instance id
    subnets,      \* ec2 backend: subnets matching the zone / VPC filter
    hist,         \* outcomes of the handlers run so far, oldest first
    pc,           \* per workflow: position inside a step-wise handler
    fetched,      \* per workflow: the firewall rule a workflow has fetched
    poll          \* the waitForOp in progress: its position and its backoff

vars == <<driverName, d, swarmPort, firewall, instance, disk, projectValid,
          groups, keyPairs, ec2Instances, subnets, hist, pc, fetched, poll>>

googleBackend == <<firewall, instance, disk, projectValid>>
ec2Backend == <<groups, keyPairs, ec2Instances, subnets>>

(***************************************************************************)
(* Bounds of the model.                                                    *)
(***************************************************************************)
MaxOpenPorts == 2   \* longest list of --*-open-port values
MaxRuns == 2        \* handlers run in one behaviour

(***************************************************************************)
(* Values shared by both drivers.                                          *)
(***************************************************************************)
nil == "nil"        \* Go's nil error
nilFactory == <<>>  \* a nil *backoffFactory; <<f>> points to the factory f
Protocols == {"tcp", "udp"}

\* The backend state a handler starts from and leaves.
Cloud == [firewall |-> firewall, instance |-> instance, disk |-> disk,
          projectValid |-> projectValid, groups |-> groups,
          keyPairs |-> keyPairs, ec2Instances |-> ec2Instances,
          subnets |-> subnets]

\* One backend API call: its name and its argument.
Call(api, arg) == [api |-> api, arg |-> arg]

\* The outcome of a handler.
Outcome(err, cloud, drv, calls) ==
    [err |-> err, cloud |-> cloud, d |-> drv, calls |-> calls]

\* "8080/tcp" is the record [port |-> "8080", proto |-> "tcp"]; a value
\* without "/proto" has proto "": SplitPortProto defaults it to tcp.
PortProto(port, proto) == [port |-> port, proto |-> proto]

SplitPortProto(p) ==
    IF p.proto = "" THEN <<p.port, "tcp">> ELSE <<p.port, p.proto>>

\* strings.Split(u.Host, ":")[1] of url.Parse(SwarmHost): a swarm host is
\* the record [host, port] of "tcp://host:port".
SwarmHostPort(swarmHost) == swarmHost.port

\* The element of a one-element set.  {e(x) : x \in {v}} is e with x bound
\* to the value v, which is then computed once however often e uses it.
TheOne(S) == CHOOSE x \in S : TRUE

RECURSIVE SeqToSet(_)
SeqToSet(s) == IF s = <<>> THEN {} ELSE {Head(s)} \cup SeqToSet(Tail(s))

(***************************************************************************)
(* google driver: firewall reconciliation (compute_util.go).               *)
(***************************************************************************)
firewallRuleName == "docker-machines"
googleDockerPort == "2376"
firewallTargetTag == "docker-machine"

\* A *raw.Firewall.  exists = FALSE stands for "no such object".
Firewall(allowed, sourceRanges, targetTags, network) ==
    [exists |-> TRUE, Name |-> firewallRuleName, Allowed |-> allowed,
     SourceRanges |-> sourceRanges, TargetTags |-> targetTags,
     Network |-> network]

NoFirewall ==
    [exists |-> FALSE, Name |-> firewallRuleName, Allowed |-> <<>>,
     SourceRanges |-> {}, TargetTags |-> {}, Network |-> ""]

FirewallAllowed(proto, ports) == [IPProtocol |-> proto, Ports |-> ports]

\* newComputeUtil: the ComputeUtil built from the driver.
newComputeUtil(drv) ==
    [instanceName |-> drv.MachineName,
     network |-> drv.Network,
     SwarmMaster |-> drv.SwarmMaster,
     SwarmHost |-> drv.SwarmHost,
     openPorts |-> drv.OpenPorts,
     skipFirewall |-> drv.SkipFirewall,
     useInternalIP |-> drv.UseInternalIP,
     operationBackoffFactory |-> drv.OperationBackoffFactory]

\* Firewalls.Get(...).Do(): the object, or an error; a missing object is
\* the error 404 (the client never returns a nil object with a nil error).
firewallRule(cloud, fails) ==
    IF "Firewalls.Get" \in fails THEN [rule |-> NoFirewall, err |-> "backendError"]
    ELSE IF ~cloud.firewall.exists THEN [rule |-> NoFirewall, err |-> "notFound"]
    ELSE [rule |-> cloud.firewall, err |-> nil]

\* The "port/proto" keys a rule opens.
openedPorts(rule) ==
    UNION {{<<rule.Allowed[i].Ports[j], rule.Allowed[i].IPProtocol>> :
                j \in DOMAIN rule.Allowed[i].Ports} : i \in DOMAIN rule.Allowed}

RECURSIVE PortsOfProto(_, _)
PortsOfProto(ports, proto) ==
    IF ports = <<>> THEN <<>>
    ELSE LET pp == SplitPortProto(Head(ports)) IN
         IF pp[2] = proto THEN <<pp[1]>> \o PortsOfProto(Tail(ports), proto)
         ELSE PortsOfProto(Tail(ports), proto)

\* missingOpenedPorts: protocol -> the ports of `ports` the rule lacks, in
\* the order of `ports` (a Go map: only the protocols with a missing port).
missingOpenedPorts(rule, ports) ==
    LET opened == openedPorts(rule)
        missing == SelectSeq(ports, LAMBDA p : SplitPortProto(p) \notin opened)
        protos == {SplitPortProto(missing[i])[2] : i \in DOMAIN missing}
    IN [proto \in protos |-> PortsOfProto(missing, proto)]

\* portsUsed: the desired ports, as "port/proto" values.
portsUsed(c) ==
    <<PortProto(googleDockerPort, "tcp")>>
    \o (IF c.SwarmMaster
        THEN <<PortProto(SwarmHostPort(c.SwarmHost), "tcp")>> ELSE <<>>)
    \o [i \in DOMAIN c.openPorts |->
          PortProto(SplitPortProto(c.openPorts[i])[1],
                    SplitPortProto(c.openPorts[i])[2])]

\* Mutant of appendMissing: the rule's Allowed list is assigned the new
\* entries instead of being extended by them.
appendMissing_overwrite(allowed, missingPorts, order) ==
    LET o == SelectSeq(order, LAMBDA proto : proto \in DOMAIN missingPorts)
    IN [i \in DOMAIN o |-> FirewallAllowed(o[i], missingPorts[o[i]])]

\* for proto, ports := range missingPorts { rule.Allowed = append(...) }:
\* `order` is the order in which Go iterates over the map.
RECURSIVE appendMissing(_, _, _)
appendMissing(allowed, missingPorts, order) ==
    IF order = <<>> THEN allowed
    ELSE IF Head(order) \in DOMAIN missingPorts
    THEN appendMissing(
            Append(allowed, FirewallAllowed(Head(order), missingPorts[Head(order)])),
            missingPorts, Tail(order))
    ELSE appendMissing(allowed, missingPorts, Tail(order))

\* waitForOp, seen from a handler: the error it returns for the operation
\* `wait` polls ("GlobalOperations.Wait" or "ZoneOperations.Wait").
waitForOp(c, wait, fails) ==
    IF c.operationBackoffFactory = nilFactory
    THEN "operationBackoffFactory is not defined"
    ELSE IF wait \in fails THEN "operation error"
    ELSE nil

\* openFirewallPorts.
openFirewallPorts(c, drv, cloud, fails, order) ==
    IF c.skipFirewall THEN Outcome(nil, cloud, drv, <<>>)
    ELSE
    LET got == firewallRule(cloud, fails)
        get == Call("Firewalls.Get", firewallRuleName)
    IN
    IF got.err # nil
    THEN Outcome("requesting firewall rule", cloud, drv, <<get>>)
    ELSE
    LET create == ~got.rule.exists
        rule0 == IF create
                 THEN Firewall(<<>>, {"0.0.0.0/0"}, {firewallTargetTag}, drv.Network)
                 ELSE got.rule
        missingPorts == missingOpenedPorts(rule0, portsUsed(c))
        rule == [rule0 EXCEPT !.Allowed = appendMissing(@, missingPorts, order)]
        api == IF create THEN "Firewalls.Insert" ELSE "Firewalls.Update"
        written == [cloud EXCEPT !.firewall = rule]
        werr == waitForOp(c, "GlobalOperations.Wait", fails)
    IN
    IF DOMAIN missingPorts = {} THEN Outcome(nil, cloud, drv, <<get>>)
    ELSE IF api \in fails
    THEN Outcome("backendError", cloud, drv, <<get, Call(api, rule)>>)
    ELSE IF c.operationBackoffFactory = nilFactory
    THEN Outcome(werr, written, drv, <<get, Call(api, rule)>>)
    ELSE Outcome(werr, written, drv,
                 <<get, Call(api, rule), Call("GlobalOperations.Wait", api)>>)

(***************************************************************************)
(* amazonec2 driver: security-group reconciliation (amazonec2.go).         *)
(***************************************************************************)
ipRange == "0.0.0.0/0"
dockerPort == 2376
defaultSwarmPort == 3376
defaultSSHPort == 22
nilPort == -1       \* a nil *int64 FromPort (a permission for all ports)

\* fmt.Sprintf("%d", n) on the ports of the model.
Itoa(n) ==
    CASE n = 22 -> "22" [] n = 2376 -> "2376" [] n = 3376 -> "3376"
      [] n = 8080 -> "8080" [] n = 9090 -> "9090" [] OTHER -> "?"

\* strconv.ParseInt(s, 10, 0): base 10 accepts leading zeros; anything
\* that is not a number is an error.
ParseInt(s) ==
    CASE s = "22" -> [n |-> 22, err |-> nil]
      [] s = "2376" -> [n |-> 2376, err |-> nil]
      [] s = "3376" -> [n |-> 3376, err |-> nil]
      [] s = "8080" -> [n |-> 8080, err |-> nil]
      [] s = "08080" -> [n |-> 8080, err |-> nil]
      [] s = "9090" -> [n |-> 9090, err |-> nil]
      [] OTHER -> [n |-> 0, err |-> "invalid syntax"]

\* An *ec2.IpPermission with one IpRange.
IpPermission(proto, port, cidr) ==
    [IpProtocol |-> proto, FromPort |-> port, ToPort |-> port, CidrIp |-> cidr]

\* An *ec2.SecurityGroup.  exists = FALSE stands for "no such group".
SecurityGroup(name, perms) ==
    [exists |-> TRUE, GroupName |-> name, GroupId |-> <<"sg", name>>,
     IpPermissions |-> perms]

NoSecurityGroup(name) ==
    [exists |-> FALSE, GroupName |-> name, GroupId |-> <<"sg", name>>,
     IpPermissions |-> <<>>]

\* migrateStringToSlice.
migrateStringToSlice(value, values) ==
    (IF value # "" THEN <<value>> ELSE <<>>) \o values

securityGroupNames(drv) ==
    migrateStringToSlice(drv.SecurityGroupName, drv.SecurityGroupNames)

securityGroupIds(drv) ==
    migrateStringToSlice(drv.SecurityGroupId, drv.SecurityGroupIds)

\* The keys of hasPorts: "<FromPort>/<IpProtocol>" of the group's
\* permissions that have a FromPort.
hasPorts(group) ==
    {<<Itoa(group.IpPermissions[i].FromPort), group.IpPermissions[i].IpProtocol>> :
        i \in {j \in DOMAIN group.IpPermissions :
                  group.IpPermissions[j].FromPort # nilPort}}

\* The loop over d.OpenPorts of configureSecurityGroupPermissions.
RECURSIVE openPortPermissions(_, _, _)
openPortPermissions(openPorts, has, perms) ==
    IF openPorts = <<>> THEN [perms |-> perms, err |-> nil]
    ELSE
    LET pp == SplitPortProto(Head(openPorts))
        portNum == ParseInt(pp[1])
    IN
    IF portNum.err # nil THEN [perms |-> <<>>, err |-> "invalid port number"]
    ELSE IF <<pp[1], pp[2]>> \notin has
    THEN openPortPermissions(Tail(openPorts), has,
            Append(perms, IpPermission(pp[2], portNum.n, ipRange)))
    ELSE openPortPermissions(Tail(openPorts), has, perms)

\* Mutant of configureSecurityGroupPermissions: SecurityGroupReadOnly is
\* not looked at.
configureSecurityGroupPermissions_noReadOnly(drv, swarm, group) ==
    LET has == hasPorts(group)
        ssh == IF <<Itoa(drv.SSHPort), "tcp">> \notin has
               THEN <<IpPermission("tcp", drv.SSHPort, ipRange)>> ELSE <<>>
        docker == IF <<Itoa(dockerPort), "tcp">> \notin has
                  THEN <<IpPermission("tcp", dockerPort, ipRange)>> ELSE <<>>
        swarmPerm == IF <<Itoa(swarm), "tcp">> \notin has /\ drv.SwarmMaster
                     THEN <<IpPermission("tcp", swarm, ipRange)>> ELSE <<>>
    IN openPortPermissions(drv.OpenPorts, has, ssh \o docker \o swarmPerm)

\* configureSecurityGroupPermissions: the permissions to authorise.
configureSecurityGroupPermissions(drv, swarm, group) ==
    IF drv.SecurityGroupReadOnly THEN [perms |-> <<>>, err |-> nil]
    ELSE
    LET has == hasPorts(group)
        ssh == IF <<Itoa(drv.SSHPort), "tcp">> \notin has
               THEN <<IpPermission("tcp", drv.SSHPort, ipRange)>> ELSE <<>>
        docker == IF <<Itoa(dockerPort), "tcp">> \notin has
                  THEN <<IpPermission("tcp", dockerPort, ipRange)>> ELSE <<>>
        swarmPerm == IF <<Itoa(swarm), "tcp">> \notin has /\ drv.SwarmMaster
                     THEN <<IpPermission("tcp", swarm, ipRange)>> ELSE <<>>
    IN openPortPermissions(drv.OpenPorts, has, ssh \o docker \o swarmPerm)

\* AuthorizeSecurityGroupIngress on the backend: the permissions are added
\* to the group; a permission the group already holds is rejected.
AuthorizeSecurityGroupIngress(cloud, name, perms, fails) ==
    LET old == cloud.groups[name].IpPermissions IN
    IF "AuthorizeSecurityGroupIngress" \in fails
    THEN [cloud |-> cloud, err |-> "backendError"]
    ELSE IF SeqToSet(perms) \cap SeqToSet(old) # {}
    THEN [cloud |-> cloud, err |-> "InvalidPermission.Duplicate"]
    ELSE [cloud |-> [cloud EXCEPT !.groups[name].IpPermissions = old \o perms],
          err |-> nil]

\* CreateSecurityGroup on the backend.
CreateSecurityGroup(cloud, name, fails) ==
    IF "CreateSecurityGroup" \in fails
    THEN [cloud |-> cloud, err |-> "backendError"]
    ELSE IF cloud.groups[name].exists
    THEN [cloud |-> cloud, err |-> "InvalidGroup.Duplicate"]
    ELSE [cloud |-> [cloud EXCEPT !.groups[name] = SecurityGroup(name, <<>>)],
          err |-> nil]

(***************************************************************************)
(* The bounded waits of the amazonec2 driver.  mcnutils.WaitFor(f) calls f *)
(* until it answers true, maxAttempts times at most, and sleeps between    *)
(* two calls.  The backend answers the k-th read of a wait with the k-th   *)
(* answer of a list, and with the last answer from then on: "error" is an  *)
(* error of the call, "empty" an answer that holds no resource, "ok" the   *)
(* answer that shows what the backend holds.                               *)
(***************************************************************************)
maxAttempts == 60    \* calls of f in one mcnutils.WaitFor

\* The answers to the reads of one API during a handler: api.transient in
\* fails is one error before the backend answers, api.empty one empty
\* answer, api in fails an error every time.
PollAnswers(api, fails) ==
    (IF (api \o ".transient") \in fails THEN <<"error">> ELSE <<>>)
    \o (IF (api \o ".empty") \in fails THEN <<"empty">> ELSE <<>>)
    \o <<IF api \in fails THEN "error" ELSE "ok">>

\* The answers left after n reads.
AnswersAfter(answers, n) ==
    IF n < Len(answers) THEN SubSeq(answers, n + 1, Len(answers))
    ELSE <<answers[Len(answers)]>>

\* Mutant of WaitFor: f is called once.
WaitFor_oneAttempt(results) ==
    IF results[1] THEN [err |-> nil, attempts |-> 1]
    ELSE [err |-> "Maximum number of retries (60) exceeded", attempts |-> 1]

\* mcnutils.WaitFor: results[k] is what the k-th call of f returns.  The
\* answer is the error and the number of calls made.
WaitFor(results) ==
    LET at(k) == results[IF k < Len(results) THEN k ELSE Len(results)]
        hits == {k \in 1..maxAttempts : at(k)}
    IN IF hits = {}
       THEN [err |-> "Maximum number of retries (60) exceeded",
             attempts |-> maxAttempts]
       ELSE [err |-> nil,
             attempts |-> CHOOSE k \in hits : \A j \in hits : k <= j]

\* What the backend shows in its answers to the reads of a wait, answer by
\* answer: present says whether it holds what the wait is for.
Shown(answers, present) == [k \in DOMAIN answers |-> answers[k] = "ok" /\ present]

\* Mutant of securityGroupAvailableFunc: every answer counts as the group.
securityGroupAvailableFunc_anyAnswer(answer, group) == TRUE

\* The function securityGroupAvailableFunc returns: an error of the call
\* is logged and answered with false, as is an answer without a group.
securityGroupAvailableFunc(answer, group) ==
    LET err == IF answer = "error" THEN "backendError" ELSE nil
        SecurityGroups == IF answer = "ok" /\ group.exists THEN <<group>> ELSE <<>>
    IN err = nil /\ Len(SecurityGroups) > 0

\* instanceIpAvailable: an error of GetIP is logged, the address is then
\* "" and the answer false.
instanceIpAvailable(answer, inst) ==
    LET address == IF answer = "ok" /\ inst.exists THEN inst.PublicIpAddress ELSE ""
    IN address # ""

\* instanceIsRunning: an error of GetState is logged, the state is then
\* state.Error and the answer false.
instanceIsRunning(answer, inst) ==
    LET st == IF answer # "ok" \/ ~inst.exists THEN "Error"
              ELSE IF inst.State = "running" THEN "Running"
              ELSE "Starting"
    IN st = "Running"

\* The reads a wait makes, one call each: found says whether the backend
\* showed in its answer what the wait is for.
WaitCalls(api, id, shown, waited) ==
    [k \in 1..waited.attempts |->
        Call(api, [id |-> id,
                   found |-> shown[IF k < Len(shown) THEN k ELSE Len(shown)]])]

\* The loop over groupNames of configureSecurityGroups; groupsByName is the
\* answer of the one DescribeSecurityGroups call made before the loop.
RECURSIVE configureGroupsLoop(_, _, _, _, _, _)
configureGroupsLoop(groupNames, groupsByName, drv, cloud, calls, fails) ==
    IF groupNames = <<>> THEN Outcome(nil, cloud, drv, calls)
    ELSE
    LET groupName == Head(groupNames)
        ok == groupsByName[groupName].exists
        created == CreateSecurityGroup(cloud, groupName, fails)
        createCall == Call("CreateSecurityGroup", groupName)
        group == IF ok THEN groupsByName[groupName] ELSE NoSecurityGroup(groupName)
        answers == PollAnswers("DescribeSecurityGroups.GroupIds", fails)
        waited == WaitFor([k \in DOMAIN answers |->
                             securityGroupAvailableFunc(answers[k],
                                                        created.cloud.groups[groupName])])
        available == waited.err = nil
        waitCalls == WaitCalls("DescribeSecurityGroups.GroupIds", group.GroupId,
                               Shown(answers, created.cloud.groups[groupName].exists),
                               waited)
        cloud1 == IF ok THEN cloud ELSE created.cloud
        calls1 == IF ok THEN calls ELSE calls \o <<createCall>> \o waitCalls
        drv1 == [drv EXCEPT !.SecurityGroupIds = Append(@, group.GroupId)]
        p == configureSecurityGroupPermissions(drv1, swarmPort, group)
        auth == AuthorizeSecurityGroupIngress(cloud1, groupName, p.perms, fails)
        authCall == Call("AuthorizeSecurityGroupIngress",
                         [GroupId |-> group.GroupId, IpPermissions |-> p.perms])
    IN
    IF ~ok /\ created.err # nil
    THEN Outcome(created.err, cloud, drv, calls \o <<createCall>>)
    ELSE IF ~ok /\ ~available
    THEN Outcome(waited.err, cloud1, drv, calls1)
    ELSE IF p.err # nil THEN Outcome(p.err, cloud1, drv1, calls1)
    ELSE IF p.perms = <<>>
    THEN configureGroupsLoop(Tail(groupNames), groupsByName, drv1, cloud1, calls1, fails)
    ELSE IF auth.err # nil
    THEN Outcome(auth.err, auth.cloud, drv1, calls1 \o <<authCall>>)
    ELSE configureGroupsLoop(Tail(groupNames), groupsByName, drv1, auth.cloud,
                             calls1 \o <<authCall>>, fails)

\* configureSecurityGroups.
configureSecurityGroups(drv, groupNames, cloud, fails) ==
    LET describe == Call("DescribeSecurityGroups", groupNames) IN
    IF groupNames = <<>> THEN Outcome(nil, cloud, drv, <<>>)
    ELSE IF "DescribeSecurityGroups" \in fails
    THEN Outcome("backendError", cloud, drv, <<describe>>)
    ELSE configureGroupsLoop(groupNames, cloud.groups, drv, cloud, <<describe>>, fails)

(***************************************************************************)
(* The driver objects and backend states the behaviours start from.        *)
(***************************************************************************)
machineName == "host1"

\* The key pair the caller names with the flag amazonec2-keypair-name.
callerKeyName == "mykey"
Workflows == {1, 2}
idlePc == [w \in Workflows |-> "idle"]

\* No waitForOp in progress.
idlePoll ==
    [pc |-> "idle", err |-> nil, last |-> "", next |-> 0, cancelled |-> FALSE,
     b |-> [currentInterval |-> 0, elapsed |-> 0, Multiplier |-> 0,
            MaxInterval |-> 0, MaxElapsedTime |-> 0]]

\* The values of --google-open-port / --amazonec2-open-port.
OpenPortValues ==
    {PortProto("8080", "tcp"), PortProto("08080", "tcp"),
     PortProto("9090", "udp"), PortProto("http", "tcp")}

RECURSIVE SeqsUpTo(_, _)
SeqsUpTo(S, n) ==
    IF n = 0 THEN {<<>>}
    ELSE SeqsUpTo(S, n - 1) \cup
         {Append(s, x) : s \in {t \in SeqsUpTo(S, n - 1) : Len(t) = n - 1}, x \in S}

OpenPortLists == SeqsUpTo(OpenPortValues, MaxOpenPorts)

\* The backoffFactory SetConfigFromFlags builds from the default flags.
defaultBackoffFactory ==
    [InitialInterval |-> 1, Multiplier |-> 2, MaxInterval |-> 30,
     MaxElapsedTime |-> 300]

\* A *raw.Instance.  exists = FALSE stands for "no such instance".
Instance(status, tags, metadata, natIP) ==
    [exists |-> TRUE, Status |-> status, Tags |-> tags, Metadata |-> metadata,
     NatIP |-> natIP]

NoInstance ==
    [exists |-> FALSE, Status |-> "", Tags |-> <<>>, Metadata |-> <<>>, NatIP |-> ""]

\* google Driver: NewDriver followed by SetConfigFromFlags.
GoogleDriver(useExisting, openPorts, skip, swarmMaster) ==
    [MachineName |-> machineName, Project |-> "project1", Network |-> "default",
     Tags |-> <<>>, UseExisting |-> useExisting, OpenPorts |-> openPorts,
     SkipFirewall |-> skip, UseInternalIP |-> FALSE,
     SwarmMaster |-> swarmMaster,
     SwarmHost |-> [host |-> "0.0.0.0", port |-> "3376"],
     IPAddress |-> "", SSHKeyPath |-> "id_rsa",
     OperationBackoffFactory |-> <<defaultBackoffFactory>>]

\* The region table of the amazonec2 driver: three of its entries, the
\* entry for a custom endpoint, which names no image, among them.
defaultRegion == "us-east-1"
defaultAmiId == "ami-08d4ac5b634553e16"

regionDetails ==
    [r \in {"us-east-1", "eu-west-1", "custom-endpoint"} |->
       [AmiId |-> CASE r = "us-east-1" -> "ami-0cadabe060becb0e1"
                    [] r = "eu-west-1" -> "ami-0da9e5d20774e4bac"
                    [] OTHER -> ""]]

\* validateAwsRegion: [region, err].
validateAwsRegion(region) ==
    IF region \in DOMAIN regionDetails THEN [region |-> region, err |-> nil]
    ELSE [region |-> "", err |-> "Invalid region specified"]

\* What the process ends with when it reads a field through a nil pointer;
\* the handler does not return.
nilPointerPanic == "panic: runtime error: invalid memory address or nil pointer dereference"

\* flags.String(name) for an option the model may leave at its default.
FlagOr(flags, name, default) == IF name \in DOMAIN flags THEN flags[name] ELSE default

\* amazonec2 Driver: NewDriver followed by SetConfigFromFlags.
Ec2Driver(groupNames, readOnly, openPorts, swarmMaster, keyName, subnetId, spot) ==
    [MachineName |-> machineName, InstanceId |-> "", IPAddress |-> "",
     KeyName |-> keyName, ExistingKey |-> keyName # "",
     SSHPrivateKeyPath |-> IF keyName # "" THEN "user_rsa" ELSE "",
     SecurityGroupId |-> "", SecurityGroupIds |-> <<>>,
     SecurityGroupName |-> "", SecurityGroupNames |-> groupNames,
     SecurityGroupReadOnly |-> readOnly, OpenPorts |-> openPorts,
     SSHPort |-> defaultSSHPort, SwarmMaster |-> swarmMaster,
     SwarmHost |-> [host |-> "0.0.0.0", port |-> "3376"],
     VpcId |-> "vpc-1", SubnetId |-> subnetId, RequestSpotInstance |-> spot,
     Tags |-> <<>>, PrivateIPOnly |-> FALSE, UsePrivateIP |-> FALSE,
     UserDataFile |-> "", Endpoint |-> "", DisableSSL |-> FALSE,
     Region |-> defaultRegion, AMI |-> regionDetails[defaultRegion].AmiId]

\* NewDriver of the google driver: no project, no backoff factory.
NewGoogleDriver ==
    [MachineName |-> machineName, Project |-> "", Network |-> "default",
     Tags |-> <<>>, UseExisting |-> FALSE, OpenPorts |-> <<>>,
     SkipFirewall |-> FALSE, UseInternalIP |-> FALSE,
     SwarmMaster |-> FALSE, SwarmHost |-> [host |-> "", port |-> ""],
     IPAddress |-> "", SSHKeyPath |-> "",
     OperationBackoffFactory |-> nilFactory]

\* NewDriver of the amazonec2 driver.
NewEc2Driver ==
    [MachineName |-> machineName, InstanceId |-> "", IPAddress |-> "",
     KeyName |-> "", ExistingKey |-> FALSE, SSHPrivateKeyPath |-> "",
     SecurityGroupId |-> "", SecurityGroupIds |-> <<>>,
     SecurityGroupName |-> "", SecurityGroupNames |-> <<"docker-machine">>,
     SecurityGroupReadOnly |-> FALSE, OpenPorts |-> <<>>,
     SSHPort |-> defaultSSHPort, SwarmMaster |-> FALSE,
     SwarmHost |-> [host |-> "", port |-> ""],
     VpcId |-> "", SubnetId |-> "", RequestSpotInstance |-> FALSE,
     Tags |-> <<>>, PrivateIPOnly |-> FALSE, UsePrivateIP |-> FALSE,
     UserDataFile |-> "", Endpoint |-> "", DisableSSL |-> FALSE,
     Region |-> defaultRegion, AMI |-> defaultAmiId]

\* Firewall rule objects a project can hold before the driver runs: none,
\* the rule as this driver wrote it earlier, and rules an administrator
\* wrote (other ports, another source range).
FirewallPresets ==
    {NoFirewall,
     Firewall(<<FirewallAllowed("tcp", <<"2376">>)>>,
              {"0.0.0.0/0"}, {firewallTargetTag}, "default"),
     Firewall(<<FirewallAllowed("tcp", <<"2376", "8080">>),
                FirewallAllowed("udp", <<"9090">>)>>,
              {"0.0.0.0/0"}, {firewallTargetTag}, "default"),
     Firewall(<<FirewallAllowed("tcp", <<"22">>)>>,
              {"0.0.0.0/0"}, {firewallTargetTag}, "default"),
     Firewall(<<FirewallAllowed("tcp", <<"22", "2376">>)>>,
              {"10.0.0.0/8"}, {"bastion"}, "default")}

GroupNames == {"docker-machine", "extra"}

\* Security groups a VPC can hold before the driver runs.
GroupPresets(name) ==
    {NoSecurityGroup(name),
     SecurityGroup(name, <<>>),
     SecurityGroup(name, <<IpPermission("tcp", 22, ipRange),
                           IpPermission("tcp", 2376, ipRange)>>),
     SecurityGroup(name, <<IpPermission("tcp", 22, ipRange),
                           IpPermission("tcp", 2376, ipRange),
                           IpPermission("tcp", 8080, ipRange)>>),
     SecurityGroup(name, <<IpPermission("tcp", 22, "10.0.0.0/8"),
                           IpPermission("tcp", 2376, "10.0.0.0/8"),
                           IpPermission("-1", nilPort, "10.0.0.0/8")>>)}

noGroups == [n \in GroupNames |-> NoSecurityGroup(n)]

\* An *ec2.Instance.  exists = FALSE stands for "no such instance".
\* The instance d.InstanceId names.  orphans counts the live instances this
\* driver launched earlier and whose id it has overwritten since.
Ec2Instance(st, ip) ==
    [exists |-> TRUE, State |-> st, PublicIpAddress |-> ip, orphans |-> 0]
NoEc2Instance ==
    [exists |-> FALSE, State |-> "", PublicIpAddress |-> "", orphans |-> 0]

\* An instance that is launched and not terminated.
Ec2Live(inst) == inst.exists /\ inst.State \notin {"shutting-down", "terminated"}

\* The parts of the state a specification does not use.
GoogleIdle ==
    /\ firewall = NoFirewall /\ instance = NoInstance
    /\ disk = FALSE /\ projectValid = TRUE
Ec2Idle ==
    /\ groups = noGroups /\ keyPairs = {}
    /\ ec2Instances = NoEc2Instance /\ subnets = <<>>
    /\ swarmPort = defaultSwarmPort
NoWorkflows ==
    /\ pc = idlePc /\ fetched = [w \in Workflows |-> NoFirewall]
    /\ poll = idlePoll

(***************************************************************************)
(* google driver: PreCreateCheck and Create (google.go, compute_util.go).  *)
(* d.Address is empty, so createInstance resolves no static address.       *)
(***************************************************************************)
\* The entry a handler leaves in its call list when it invokes d.Remove().
RemoveInvoked == Call("Driver.Remove", machineName)

\* c.instance(): Instances.Get(...).Do(); a missing instance is the error
\* 404, any other failure is an error as well, and both come with no object.
instanceGet(cloud, fails) ==
    IF "Instances.Get" \in fails THEN [instance |-> NoInstance, err |-> "backendError"]
    ELSE IF ~cloud.instance.exists THEN [instance |-> NoInstance, err |-> "notFound"]
    ELSE [instance |-> cloud.instance, err |-> nil]

\* Driver.PreCreateCheck.  `instance, _ := c.instance()` drops the error.
GooglePreCreateCheck(drv, cloud, fails) ==
    LET project == Call("Projects.Get", drv.Project)
        got == instanceGet(cloud, fails)
        get == Call("Instances.Get", drv.MachineName)
    IN
    IF ~cloud.projectValid
    THEN Outcome("Project not found", cloud, drv, <<project>>)
    ELSE IF drv.UseExisting /\ ~got.instance.exists
    THEN Outcome("unable to find instance", cloud, drv, <<project, get>>)
    ELSE IF ~drv.UseExisting /\ got.instance.exists
    THEN Outcome("instance already exists", cloud, drv, <<project, get>>)
    ELSE Outcome(nil, cloud, drv, <<project, get>>)

\* waitForRegionalOp after the call `prev`: the outcome when the call list
\* so far is `calls` and the backend is left as `cloud`.
waitForRegionalOp(c, drv, cloud, calls, prev, fails) ==
    IF c.operationBackoffFactory = nilFactory
    THEN Outcome(waitForOp(c, "ZoneOperations.Wait", fails), cloud, drv, calls)
    ELSE Outcome(waitForOp(c, "ZoneOperations.Wait", fails), cloud, drv,
                 Append(calls, Call("ZoneOperations.Wait", prev)))

\* uploadSSHKey: the keys "sshKeys" and "ssh-keys" are appended to the
\* metadata of the instance object the caller fetched.
uploadSSHKey(c, drv, inst, cloud, calls, fails) ==
    LET metadata == inst.Metadata \o <<"sshKeys", "ssh-keys">>
        set == Call("Instances.SetMetadata", metadata)
    IN
    IF "ReadFile" \in fails THEN Outcome("open id_rsa.pub", cloud, drv, calls)
    ELSE IF "Instances.SetMetadata" \in fails
    THEN Outcome("backendError", cloud, drv, Append(calls, set))
    ELSE waitForRegionalOp(c, drv, [cloud EXCEPT !.instance.Metadata = metadata],
                           Append(calls, set), "Instances.SetMetadata", fails)

\* addFirewallTag.
addFirewallTag(c, drv, inst, cloud, calls, fails) ==
    LET tags == Append(inst.Tags, firewallTargetTag)
        set == Call("Instances.SetTags", tags)
    IN
    IF firewallTargetTag \in SeqToSet(inst.Tags) THEN Outcome(nil, cloud, drv, calls)
    ELSE IF "Instances.SetTags" \in fails
    THEN Outcome("backendError", cloud, drv, Append(calls, set))
    ELSE waitForRegionalOp(c, drv, [cloud EXCEPT !.instance.Tags = tags],
                           Append(calls, set), "Instances.SetTags", fails)

\* configureInstance.
configureInstance(c, drv, cloud, calls, fails) ==
    LET got == instanceGet(cloud, fails)
        calls1 == Append(calls, Call("Instances.Get", drv.MachineName))
        tagged == addFirewallTag(c, drv, got.instance, cloud, calls1, fails)
    IN
    IF got.err # nil THEN Outcome(got.err, cloud, drv, calls1)
    ELSE IF tagged.err # nil THEN tagged
    ELSE uploadSSHKey(c, drv, got.instance, tagged.cloud, tagged.calls, fails)

\* parseTags.
parseTags(drv) == <<firewallTargetTag>> \o drv.Tags

\* createInstance.  Instances.Insert creates the instance and, unless the
\* disk "<name>-disk" is there to be attached, its boot disk; the backend
\* refuses a second instance of the same name.
createInstance(c, drv, cloud, calls, fails) ==
    LET calls1 == Append(calls, Call("Disks.Get", <<drv.MachineName, "disk">>))
        newDisk == ~cloud.disk \/ "Disks.Get" \in fails
        new == Instance("RUNNING", parseTags(drv), <<>>, "203.0.113.10")
        insert == Call("Instances.Insert", [instance |-> new, newDisk |-> newDisk])
        calls2 == Append(calls1, insert)
        cloud2 == [cloud EXCEPT !.instance = new, !.disk = TRUE]
        waited == waitForRegionalOp(c, drv, cloud2, calls2, "Instances.Insert", fails)
        got == instanceGet(cloud2, fails)
        calls3 == Append(waited.calls, Call("Instances.Get", drv.MachineName))
    IN
    IF "Instances.Insert" \in fails THEN Outcome("backendError", cloud, drv, calls2)
    ELSE IF cloud.instance.exists THEN Outcome("alreadyExists", cloud, drv, calls2)
    ELSE IF waited.err # nil THEN waited
    ELSE IF got.err # nil THEN Outcome(got.err, cloud2, drv, calls3)
    ELSE uploadSSHKey(c, drv, got.instance, cloud2, calls3, fails)

\* Mutant of GoogleCreate: UseExisting is not looked at, the instance is
\* always created.
GoogleCreate_alwaysCreates(drv, cloud, fails, order) ==
    LET c == newComputeUtil(drv)
        opened == openFirewallPorts(c, drv, cloud, fails, order)
    IN
    IF "GenerateSSHKey" \in fails THEN Outcome("GenerateSSHKey", cloud, drv, <<>>)
    ELSE IF opened.err # nil THEN opened
    ELSE createInstance(c, drv, opened.cloud, opened.calls, fails)

\* Mutant of GoogleCreate: the instance is created whatever openFirewallPorts
\* returned.
GoogleCreate_ignoresFirewallError(drv, cloud, fails, order) ==
    LET c == newComputeUtil(drv)
        opened == openFirewallPorts(c, drv, cloud, fails, order)
    IN
    IF "GenerateSSHKey" \in fails THEN Outcome("GenerateSSHKey", cloud, drv, <<>>)
    ELSE IF drv.UseExisting
    THEN configureInstance(c, drv, opened.cloud, opened.calls, fails)
    ELSE createInstance(c, drv, opened.cloud, opened.calls, fails)

\* Driver.Create.
GoogleCreate(drv, cloud, fails, order) ==
    LET c == newComputeUtil(drv)
        opened == openFirewallPorts(c, drv, cloud, fails, order)
    IN
    IF "GenerateSSHKey" \in fails THEN Outcome("GenerateSSHKey", cloud, drv, <<>>)
    ELSE IF opened.err # nil THEN opened
    ELSE IF drv.UseExisting
    THEN configureInstance(c, drv, opened.cloud, opened.calls, fails)
    ELSE createInstance(c, drv, opened.cloud, opened.calls, fails)

\* deleteInstance.  autoDelete: the backend has removed the instance's
\* boot disk with the instance by the time the handler goes on.
deleteInstance(c, drv, cloud, fails, autoDelete) ==
    LET delete == Call("Instances.Delete", drv.MachineName)
        gone == [cloud EXCEPT !.instance = NoInstance,
                              !.disk = IF autoDelete THEN FALSE ELSE @]
    IN
    IF "Instances.Delete" \in fails THEN Outcome("backendError", cloud, drv, <<delete>>)
    ELSE IF ~cloud.instance.exists THEN Outcome("notFound", cloud, drv, <<delete>>)
    ELSE waitForRegionalOp(c, drv, gone, <<delete>>, "Instances.Delete", fails)

\* c.disk(): Disks.Get(...).Do(), with no object when it returns an error.
diskGet(cloud, fails) ==
    IF "Disks.Get" \in fails THEN [disk |-> FALSE, err |-> "backendError"]
    ELSE IF ~cloud.disk THEN [disk |-> FALSE, err |-> "notFound"]
    ELSE [disk |-> TRUE, err |-> nil]

\* deleteDisk.  `disk, _ := c.disk()` drops the error.
deleteDisk(c, drv, cloud, calls, fails) ==
    LET get == Call("Disks.Get", <<drv.MachineName, "disk">>)
        delete == Call("Disks.Delete", <<drv.MachineName, "disk">>)
    IN
    IF ~diskGet(cloud, fails).disk THEN Outcome(nil, cloud, drv, Append(calls, get))
    ELSE IF "Disks.Delete" \in fails
    THEN Outcome("backendError", cloud, drv, calls \o <<get, delete>>)
    ELSE waitForRegionalOp(c, drv, [cloud EXCEPT !.disk = FALSE],
                           calls \o <<get, delete>>, "Disks.Delete", fails)

\* isNotFound.
isNotFound(err) == err = "notFound"

\* Mutant of GoogleRemove: a not-found answer of the instance deletion is
\* returned like any other error.
GoogleRemove_notFoundIsError(drv, cloud, fails, autoDelete) ==
    TheOne({
      IF inst.err # nil THEN inst
      ELSE TheOne({
        IF dsk.err # nil /\ ~isNotFound(dsk.err) THEN dsk
        ELSE Outcome(nil, dsk.cloud, drv, dsk.calls)
        : dsk \in {deleteDisk(newComputeUtil(drv), drv, inst.cloud, inst.calls, fails)}})
      : inst \in {deleteInstance(newComputeUtil(drv), drv, cloud, fails, autoDelete)}})

\* Driver.Remove.
GoogleRemove(drv, cloud, fails, autoDelete) ==
    TheOne({
      IF inst.err # nil /\ ~isNotFound(inst.err) THEN inst
      ELSE TheOne({
        IF dsk.err # nil /\ ~isNotFound(dsk.err) THEN dsk
        ELSE Outcome(nil, dsk.cloud, drv, dsk.calls)
        : dsk \in {deleteDisk(newComputeUtil(drv), drv, inst.cloud, inst.calls, fails)}})
      : inst \in {deleteInstance(newComputeUtil(drv), drv, cloud, fails, autoDelete)}})

(***************************************************************************)
(* amazonec2 driver: PreCreateCheck, Create and Remove (amazonec2.go).     *)
(***************************************************************************)
instanceId == "i-1"     \* the id RunInstances assigns

\* A subnet of the DescribeSubnets answer.
Subnet(id, defaultForAz) == [SubnetId |-> id, DefaultForAz |-> defaultForAz]

\* The subnet the loop "try to find default" settles on.
RECURSIVE defaultSubnet(_, _)
defaultSubnet(subs, first) ==
    IF subs = <<>> THEN first
    ELSE IF Head(subs).DefaultForAz THEN Head(subs).SubnetId
    ELSE defaultSubnet(Tail(subs), first)

\* The value SetConfigFromFlags assigns to the package variable swarmPort,
\* next to what the handler returns.
WithSwarmPort(out, port) == [swarmPort |-> port] @@ out

\* Mutant of Ec2SetConfigFromFlags: the options are not checked against
\* each other.
Ec2SetConfigFromFlags_optionsUnchecked(drv, flags, cloud, fails) ==
    LET drv1 == [drv EXCEPT !.Endpoint = flags.endpoint,
                            !.DisableSSL = flags.insecureTransport,
                            !.SSHPrivateKeyPath = flags.sshKeypath,
                            !.KeyName = flags.keypairName,
                            !.ExistingKey = flags.keypairName # ""]
        describe == Call("DescribeSubnets", drv1.SubnetId)
    IN
    IF "Credentials.Get" \in fails
    THEN Outcome("amazonec2 driver requires AWS credentials", cloud, drv1, <<>>)
    ELSE IF "DescribeSubnets" \in fails
    THEN Outcome("backendError", cloud, drv1, <<describe>>)
    ELSE Outcome(nil, cloud, drv1, <<describe>>)

\* SetConfigFromFlags, for the flags amazonec2-endpoint, amazonec2-region,
\* amazonec2-ami, amazonec2-insecure-transport, amazonec2-keypair-name and
\* amazonec2-ssh-keypath; the other flags, the swarm options included, are
\* given as they were when the driver object was built.  A VPC is
\* configured, so the configured subnet is looked up by its id.
\* regionDetails[region] is a nil pointer for a region the table does not
\* hold, and validateAwsRegion answers such a region with "": with an
\* endpoint, such a region and no image, regionDetails[region].AmiId ends
\* the process after d.Endpoint has been assigned.
Ec2SetConfigFromFlags(drv, flags, cloud, fails) ==
    LET valid == validateAwsRegion(FlagOr(flags, "region", defaultRegion))
        region == valid.region
        ami == FlagOr(flags, "ami", "")
        image == IF ami # "" THEN ami
                 ELSE IF region \in DOMAIN regionDetails
                 THEN regionDetails[region].AmiId
                 ELSE nilPointerPanic
        drv0 == [drv EXCEPT !.Endpoint = flags.endpoint]
        drv1 == [drv0 EXCEPT !.Region = region,
                             !.AMI = image,
                             !.DisableSSL = flags.insecureTransport,
                             !.SSHPrivateKeyPath = flags.sshKeypath,
                             !.KeyName = flags.keypairName,
                             !.ExistingKey = flags.keypairName # ""]
        describe == Call("DescribeSubnets", drv1.SubnetId)
        port == ParseInt(SwarmHostPort(drv1.SwarmHost))
        swarm(calls) ==
            IF ~drv1.SwarmMaster THEN Outcome(nil, cloud, drv1, calls)
            ELSE IF port.err # nil THEN Outcome(port.err, cloud, drv1, calls)
            ELSE WithSwarmPort(Outcome(nil, cloud, drv1, calls), port.n)
    IN
    IF valid.err # nil /\ drv0.Endpoint = "" THEN Outcome(valid.err, cloud, drv0, <<>>)
    ELSE IF image = nilPointerPanic THEN Outcome(nilPointerPanic, cloud, drv0, <<>>)
    ELSE IF drv1.DisableSSL /\ drv1.Endpoint = ""
    THEN Outcome("using --amazonec2-insecure-transport also requires --amazonec2-endpoint",
                 cloud, drv1, <<>>)
    ELSE IF drv1.KeyName # "" /\ drv1.SSHPrivateKeyPath = ""
    THEN Outcome("using --amazonec2-keypair-name also requires --amazonec2-ssh-keypath",
                 cloud, drv1, <<>>)
    ELSE IF "Credentials.Get" \in fails
    THEN Outcome("amazonec2 driver requires AWS credentials", cloud, drv1, <<>>)
    ELSE IF drv1.SubnetId = "" \/ drv1.VpcId = "" THEN swarm(<<>>)
    ELSE IF "DescribeSubnets" \in fails
    THEN Outcome("backendError", cloud, drv1, <<describe>>)
    ELSE IF \A k \in DOMAIN cloud.subnets : cloud.subnets[k].SubnetId # drv1.SubnetId
    THEN Outcome("The desired subnet could not be located in this region",
                 cloud, drv1, <<describe>>)
    ELSE swarm(<<describe>>)

\* Mutant of checkPrereqs: the subnet is looked up and assigned even when
\* d.SubnetId is configured.
checkPrereqs_alwaysSubnet(drv, cloud, fails) ==
    LET keyName == IF drv.KeyName = "" THEN drv.MachineName ELSE drv.KeyName
        keyShouldExist == drv.KeyName # ""
        describeKeys == Call("DescribeKeyPairs", keyName)
        describeSubnets == Call("DescribeSubnets", drv.VpcId)
        found == keyName \in cloud.keyPairs
        subs == cloud.subnets
    IN
    IF "DescribeKeyPairs.transport" \in fails
    THEN Outcome("transportError", cloud, drv, <<describeKeys>>)
    ELSE IF "DescribeKeyPairs" \notin fails /\ ~found /\ keyShouldExist
    THEN Outcome("There is no keypair with the name", cloud, drv, <<describeKeys>>)
    ELSE IF "DescribeKeyPairs" \notin fails /\ found /\ ~keyShouldExist
    THEN Outcome("There is already a keypair with the name", cloud, drv, <<describeKeys>>)
    ELSE IF "DescribeSubnets" \in fails
    THEN Outcome("backendError", cloud, drv, <<describeKeys, describeSubnets>>)
    ELSE IF subs = <<>>
    THEN Outcome("unable to find a subnet", cloud, drv, <<describeKeys, describeSubnets>>)
    ELSE Outcome(nil, cloud,
                 [drv EXCEPT !.SubnetId = defaultSubnet(subs, subs[1].SubnetId)],
                 <<describeKeys, describeSubnets>>)

\* checkPrereqs.  DescribeKeyPairs answers a missing key with the awserr
\* InvalidKeyPair.NotFound; "DescribeKeyPairs" in fails is another awserr
\* (the code passes it over), "DescribeKeyPairs.transport" an error that is
\* no awserr.
checkPrereqs(drv, cloud, fails) ==
    LET keyName == IF drv.KeyName = "" THEN drv.MachineName ELSE drv.KeyName
        keyShouldExist == drv.KeyName # ""
        describeKeys == Call("DescribeKeyPairs", keyName)
        describeSubnets == Call("DescribeSubnets", drv.VpcId)
        found == keyName \in cloud.keyPairs
        subs == cloud.subnets
    IN
    IF "DescribeKeyPairs.transport" \in fails
    THEN Outcome("transportError", cloud, drv, <<describeKeys>>)
    ELSE IF "DescribeKeyPairs" \notin fails /\ ~found /\ keyShouldExist
    THEN Outcome("There is no keypair with the name", cloud, drv, <<describeKeys>>)
    ELSE IF "DescribeKeyPairs" \notin fails /\ found /\ ~keyShouldExist
    THEN Outcome("There is already a keypair with the name", cloud, drv, <<describeKeys>>)
    ELSE IF drv.SubnetId # "" THEN Outcome(nil, cloud, drv, <<describeKeys>>)
    ELSE IF "DescribeSubnets" \in fails
    THEN Outcome("backendError", cloud, drv, <<describeKeys, describeSubnets>>)
    ELSE IF subs = <<>>
    THEN Outcome("unable to find a subnet", cloud, drv, <<describeKeys, describeSubnets>>)
    ELSE Outcome(nil, cloud,
                 [drv EXCEPT !.SubnetId = defaultSubnet(subs, subs[1].SubnetId)],
                 <<describeKeys, describeSubnets>>)

\* Driver.PreCreateCheck.
Ec2PreCreateCheck(drv, cloud, fails) == checkPrereqs(drv, cloud, fails)

\* createKeyPair.
createKeyPair(drv, cloud, fails) ==
    LET keyName == drv.MachineName
        import == Call("ImportKeyPair", keyName)
    IN
    IF drv.SSHPrivateKeyPath = "" /\ "GenerateSSHKey" \in fails
    THEN Outcome("GenerateSSHKey", cloud, drv, <<>>)
    ELSE IF drv.SSHPrivateKeyPath # "" /\ "CopyFile" \in fails
    THEN Outcome("CopyFile", cloud, drv, <<>>)
    ELSE IF drv.SSHPrivateKeyPath # "" /\ drv.KeyName # ""
    THEN Outcome(nil, cloud, drv, <<>>)
    ELSE IF "ReadFile" \in fails THEN Outcome("open id_rsa.pub", cloud, drv, <<>>)
    ELSE IF "ImportKeyPair" \in fails
    THEN Outcome("backendError", cloud, drv, <<import>>)
    ELSE IF keyName \in cloud.keyPairs
    THEN Outcome("InvalidKeyPair.Duplicate", cloud, drv, <<import>>)
    ELSE Outcome(nil, [cloud EXCEPT !.keyPairs = @ \cup {keyName}],
                 [drv EXCEPT !.KeyName = keyName], <<import>>)

\* Base64UserData: the error it returns.
Base64UserData(drv, fails) ==
    IF drv.UserDataFile # "" /\ "ReadFile.userdata" \in fails
    THEN "unable to read --amazonec2-userdata file"
    ELSE nil

maxTagsPerCall == 10    \* tags in one CreateTags request

\* The pairs of d.Tags, the words between its commas: a last word without
\* a value is left out.
RECURSIVE tagPairs(_)
tagPairs(words) ==
    IF Len(words) < 2 THEN <<>>
    ELSE <<[Key |-> words[1], Value |-> words[2]]>>
           \o tagPairs(SubSeq(words, 3, Len(words)))

\* createTags: the Name tag, then the pairs of d.Tags.
createTags(drv) == <<[Key |-> "Name", Value |-> drv.MachineName]>> \o tagPairs(drv.Tags)

\* Mutant of createTagsLoop: all tags go into one request.
createTagsLoop_oneCall(id, tags) ==
    <<Call("CreateTags", [Resources |-> id, Tags |-> tags])>>

\* The CreateTags requests of the loop of innerCreate for a spot instance,
\* while none of them fails: the first maxTagsPerCall tags each time, until
\* no tag is left.
RECURSIVE createTagsLoop(_, _)
createTagsLoop(id, tags) ==
    LET end == IF Len(tags) < maxTagsPerCall THEN Len(tags) ELSE maxTagsPerCall
        call == Call("CreateTags", [Resources |-> id, Tags |-> SubSeq(tags, 1, end)])
        rest == SubSeq(tags, end + 1, Len(tags))
    IN IF rest = <<>> THEN <<call>> ELSE <<call>> \o createTagsLoop(id, rest)

\* The part of innerCreate after RunInstances has answered: the tags of a
\* spot instance, the wait for the address, the wait for the instance.
\* What d.waitForInstance() returns is dropped: when the instance is not
\* running by the end of the wait ("waitForInstance" in fails), innerCreate
\* goes on to return nil.
afterRunInstances(drv, cloud, calls, fails) ==
    LET tagCalls == createTagsLoop(drv.InstanceId, createTags(drv))
        calls1 == IF ~drv.RequestSpotInstance THEN calls
                  ELSE IF "CreateTags" \in fails THEN Append(calls, tagCalls[1])
                  ELSE calls \o tagCalls
        inst == cloud.ec2Instances
        answers == PollAnswers("DescribeInstances", fails)
        ipWait == WaitFor([k \in DOMAIN answers |->
                             instanceIpAvailable(answers[k], inst)])
        later == AnswersAfter(answers, ipWait.attempts)
        runWait == WaitFor([k \in DOMAIN later |-> instanceIsRunning(later[k], inst)])
        calls2 == calls1 \o WaitCalls("DescribeInstances", drv.InstanceId,
                                      Shown(answers, inst.PublicIpAddress # ""),
                                      ipWait)
    IN
    IF drv.RequestSpotInstance /\ "CreateTags" \in fails
    THEN Outcome("Error setting tags for the spot instance", cloud, drv, calls1)
    ELSE IF ipWait.err # nil THEN Outcome(ipWait.err, cloud, drv, calls2)
    ELSE Outcome(nil, cloud, [drv EXCEPT !.IPAddress = inst.PublicIpAddress],
                 calls2 \o WaitCalls("DescribeInstances", drv.InstanceId,
                                     Shown(later, inst.State = "running"), runWait))

\* innerCreate.
innerCreate(drv, cloud, fails) ==
    TheOne({
      IF key.err # nil
      THEN Outcome("unable to create key pair", key.cloud, key.d, key.calls)
      ELSE TheOne({
        LET calls1 == key.calls \o sg.calls
            run == Call("RunInstances",
                        [KeyName |-> sg.d.KeyName, Groups |-> securityGroupIds(sg.d),
                         SubnetId |-> sg.d.SubnetId,
                         spot |-> sg.d.RequestSpotInstance,
                         TagSpecifications |->
                           IF sg.d.RequestSpotInstance THEN <<>>
                           ELSE createTags(sg.d)])
            launched == [sg.cloud EXCEPT
                           !.ec2Instances =
                              [Ec2Instance(IF "waitForInstance" \in fails
                                           THEN "pending" ELSE "running",
                                           "198.51.100.7") EXCEPT
                                 !.orphans = sg.cloud.ec2Instances.orphans
                                   + (IF Ec2Live(sg.cloud.ec2Instances) THEN 1 ELSE 0)]]
        IN
        IF sg.err # nil THEN Outcome(sg.err, sg.cloud, sg.d, calls1)
        ELSE IF Base64UserData(sg.d, fails) # nil
        THEN Outcome(Base64UserData(sg.d, fails), sg.cloud, sg.d, calls1)
        ELSE IF "RunInstances" \in fails
        THEN Outcome("Error launching instance", sg.cloud, sg.d, Append(calls1, run))
        ELSE afterRunInstances([sg.d EXCEPT !.InstanceId = instanceId], launched,
                               Append(calls1, run), fails)
        : sg \in {configureSecurityGroups(key.d, securityGroupNames(key.d),
                                          key.cloud, fails)}})
      : key \in {createKeyPair(drv, cloud, fails)}})

\* terminate.  TerminateInstances on an instance the backend does not know
\* answers InvalidInstanceID.NotFound, which terminate takes as success.
terminate(drv, cloud, fails) ==
    LET call == Call("TerminateInstances", drv.InstanceId) IN
    IF drv.InstanceId = "" THEN Outcome(nil, cloud, drv, <<>>)
    ELSE IF "TerminateInstances" \in fails
    THEN Outcome("unable to terminate instance", cloud, drv, <<call>>)
    ELSE IF ~cloud.ec2Instances.exists THEN Outcome(nil, cloud, drv, <<call>>)
    ELSE Outcome(nil, [cloud EXCEPT !.ec2Instances.State = "terminated"],
                 drv, <<call>>)

\* deleteKeyPair.  The backend deletes a key pair that does not exist
\* without an error.
deleteKeyPair(drv, cloud, fails) ==
    LET call == Call("DeleteKeyPair", drv.KeyName) IN
    IF drv.KeyName = "" THEN Outcome(nil, cloud, drv, <<>>)
    ELSE IF "DeleteKeyPair" \in fails
    THEN Outcome("backendError", cloud, drv, <<call>>)
    ELSE Outcome(nil, [cloud EXCEPT !.keyPairs = @ \ {drv.KeyName}], drv, <<call>>)

\* multierr.Errs at the end of Driver.Remove.
removeErrs(drv, cloud, fails) ==
    LET term == terminate(drv, cloud, fails)
        key == deleteKeyPair(drv, term.cloud, fails)
    IN (IF term.err # nil THEN <<term.err>> ELSE <<>>)
       \o (IF ~drv.ExistingKey /\ key.err # nil THEN <<key.err>> ELSE <<>>)

\* Mutant of Ec2Remove: the key pair is deleted whoever supplied it.
Ec2Remove_ignoresExistingKey(drv, cloud, fails) ==
    LET term == terminate(drv, cloud, fails)
        key == deleteKeyPair(drv, term.cloud, fails)
    IN Outcome(IF term.err = nil /\ key.err = nil THEN nil ELSE "MultiError",
               key.cloud, drv, term.calls \o key.calls)

\* Driver.Remove.  Its error is nil or the mcnutils.MultiError that holds
\* removeErrs.
Ec2Remove(drv, cloud, fails) ==
    LET term == terminate(drv, cloud, fails)
        key == IF drv.ExistingKey THEN Outcome(nil, term.cloud, drv, <<>>)
               ELSE deleteKeyPair(drv, term.cloud, fails)
    IN Outcome(IF removeErrs(drv, cloud, fails) = <<>> THEN nil ELSE "MultiError",
               key.cloud, drv, term.calls \o key.calls)

\* Mutant of Ec2Create: when the cleanup fails, its error is returned in
\* place of the error of innerCreate.
Ec2Create_returnsCleanupError(drv, cloud, fails) ==
    TheOne({
      IF pre.err # nil THEN pre
      ELSE TheOne({
        IF inner.err # nil
        THEN TheOne({
          Outcome(IF removed.err # nil THEN removed.err ELSE inner.err,
                  removed.cloud, inner.d,
                  pre.calls \o inner.calls \o <<RemoveInvoked>> \o removed.calls)
          : removed \in {Ec2Remove(inner.d, inner.cloud, fails)}})
        ELSE Outcome(nil, inner.cloud, inner.d, pre.calls \o inner.calls)
        : inner \in {innerCreate(pre.d, pre.cloud, fails)}})
      : pre \in {checkPrereqs(drv, cloud, fails)}})

\* Mutant of Ec2Create: the cleanup also runs when checkPrereqs fails.
Ec2Create_cleanupOnPrereq(drv, cloud, fails) ==
    TheOne({
      IF pre.err # nil
      THEN TheOne({
        Outcome(pre.err, removed.cloud, pre.d,
                pre.calls \o <<RemoveInvoked>> \o removed.calls)
        : removed \in {Ec2Remove(pre.d, pre.cloud, fails)}})
      ELSE TheOne({
        IF inner.err # nil
        THEN TheOne({
          Outcome(inner.err, removed.cloud, inner.d,
                  pre.calls \o inner.calls \o <<RemoveInvoked>> \o removed.calls)
          : removed \in {Ec2Remove(inner.d, inner.cloud, fails)}})
        ELSE Outcome(nil, inner.cloud, inner.d, pre.calls \o inner.calls)
        : inner \in {innerCreate(pre.d, pre.cloud, fails)}})
      : pre \in {checkPrereqs(drv, cloud, fails)}})

\* Driver.Create.
Ec2Create(drv, cloud, fails) ==
    TheOne({
      IF pre.err # nil THEN pre
      ELSE TheOne({
        IF inner.err # nil
        THEN TheOne({
          Outcome(inner.err, removed.cloud, inner.d,
                  pre.calls \o inner.calls \o <<RemoveInvoked>> \o removed.calls)
          : removed \in {Ec2Remove(inner.d, inner.cloud, fails)}})
        ELSE Outcome(nil, inner.cloud, inner.d, pre.calls \o inner.calls)
        : inner \in {innerCreate(pre.d, pre.cloud, fails)}})
      : pre \in {checkPrereqs(drv, cloud, fails)}})

(***************************************************************************)
(* Running one whole handler.                                              *)
(***************************************************************************)
\* The value a handler returns next to its error (GetState's state, the
\* poller's trace); nil for a handler that returns an error only.
WithResult(out, result) == [result |-> result] @@ out
ResultOf(out) == IF "result" \in DOMAIN out THEN out.result ELSE nil

(***************************************************************************)
(* waitForOp, poll by poll (compute_util.go).  opGetter answers the k-th   *)
(* fetch with answers[k], and with the last answer from then on.  The      *)
(* ExponentialBackOff counts the time slept as the time elapsed and is     *)
(* taken without randomisation.                                            *)
(***************************************************************************)
MaxPolls == 3    \* longest list of distinct answers of opGetter

\* What one fetch of the operation can bring: a status that is not DONE,
\* DONE without op.Error, DONE with op.Error, an error of the call.
OpAnswers == {"PENDING", "RUNNING", "DONE", "DONE_ERROR", "FETCH_ERROR"}

AnswerAt(answers, k) == answers[IF k <= Len(answers) THEN k ELSE Len(answers)]

Min(a, b) == IF a <= b THEN a ELSE b

\* backoffFactory.create followed by b.Reset().
createBackoff(factory) ==
    [currentInterval |-> factory.InitialInterval, elapsed |-> 0,
     Multiplier |-> factory.Multiplier, MaxInterval |-> factory.MaxInterval,
     MaxElapsedTime |-> factory.MaxElapsedTime]

backoffStop == -1

\* Mutant of NextBackOff: the backoff is over at the first call.
NextBackOff_stopsAtOnce(b) == [next |-> backoffStop, b |-> b]

\* b.NextBackOff(): [next, b].  A MaxElapsedTime of 0 is no limit to the
\* library: "It never stops if MaxElapsedTime == 0".
NextBackOff(b) ==
    IF b.MaxElapsedTime # 0 /\ b.elapsed > b.MaxElapsedTime THEN [next |-> backoffStop, b |-> b]
    ELSE [next |-> b.currentInterval,
          b |-> [b EXCEPT !.currentInterval = Min(@ * b.Multiplier, b.MaxInterval)]]

Polled(err, trace) == [err |-> err, trace |-> trace]

\* Mutant of pollLoop: an operation that is DONE with an error is polled
\* again like one that is not DONE.
RECURSIVE pollLoop_retriesFailedOperation(_, _, _, _)
pollLoop_retriesFailedOperation(answers, k, b, trace) ==
    LET answer == AnswerAt(answers, k)
        polls == Append(trace, "fetch")
        nb == NextBackOff(b)
    IN
    IF answer = "FETCH_ERROR" THEN Polled("backendError", polls)
    ELSE IF answer = "DONE" THEN Polled(nil, polls)
    ELSE IF nb.next = backoffStop
    THEN Polled("maximum backoff elapsed time exceeded", polls)
    ELSE pollLoop_retriesFailedOperation(
           answers, k + 1, [nb.b EXCEPT !.elapsed = @ + nb.next],
           Append(polls, "sleep"))

\* Mutant of pollLoop: a fetch that returns an error is repeated after the
\* next interval, like a status that is not DONE.
RECURSIVE pollLoop_retriesFetchError(_, _, _, _)
pollLoop_retriesFetchError(answers, k, b, trace) ==
    LET answer == AnswerAt(answers, k)
        polls == Append(trace, "fetch")
        nb == NextBackOff(b)
    IN
    IF answer = "DONE_ERROR" THEN Polled("operation error", polls)
    ELSE IF answer = "DONE" THEN Polled(nil, polls)
    ELSE IF nb.next = backoffStop
    THEN Polled("maximum backoff elapsed time exceeded", polls)
    ELSE pollLoop_retriesFetchError(
           answers, k + 1, [nb.b EXCEPT !.elapsed = @ + nb.next],
           Append(polls, "sleep"))

\* The loop of waitForOp from its k-th fetch on.
RECURSIVE pollLoop(_, _, _, _)
pollLoop(answers, k, b, trace) ==
    LET answer == AnswerAt(answers, k)
        polls == Append(trace, "fetch")
        nb == NextBackOff(b)
    IN
    IF answer = "FETCH_ERROR" THEN Polled("backendError", polls)
    ELSE IF answer = "DONE_ERROR" THEN Polled("operation error", polls)
    ELSE IF answer = "DONE" THEN Polled(nil, polls)
    ELSE IF nb.next = backoffStop
    THEN Polled("maximum backoff elapsed time exceeded", polls)
    ELSE pollLoop(answers, k + 1, [nb.b EXCEPT !.elapsed = @ + nb.next],
                  Append(polls, "sleep"))

\* Mutant of waitForOpPolling: without a backoff factory the loop runs with
\* the default one.
waitForOpPolling_defaultPolicy(c, answers) ==
    pollLoop(answers, 1,
             createBackoff(IF c.operationBackoffFactory = nilFactory
                           THEN defaultBackoffFactory
                           ELSE c.operationBackoffFactory[1]), <<>>)

\* waitForOp with the fetches and sleeps it performs.
waitForOpPolling(c, answers) ==
    IF c.operationBackoffFactory = nilFactory
    THEN Polled("operationBackoffFactory is not defined", <<>>)
    ELSE pollLoop(answers, 1, createBackoff(c.operationBackoffFactory[1]), <<>>)

(***************************************************************************)
(* GetState of both drivers.  The canonical states are those of            *)
(* libmachine/state.                                                       *)
(***************************************************************************)
States == {"None", "Starting", "Running", "Stopping", "Stopped", "Error"}

\* Driver.GetState of the google driver.  Both lookups drop their error:
\* `instance, _ := c.instance()`, `disk, _ := c.disk()`.
GoogleGetState(drv, cloud, fails) ==
    LET getInstance == Call("Instances.Get", drv.MachineName)
        getDisk == Call("Disks.Get", <<drv.MachineName, "disk">>)
        inst == instanceGet(cloud, fails).instance
    IN
    IF "newComputeUtil" \in fails
    THEN WithResult(Outcome("newComputeUtil", cloud, drv, <<>>), "None")
    ELSE IF ~inst.exists
    THEN WithResult(Outcome(nil, cloud, drv, <<getInstance, getDisk>>),
                    IF ~diskGet(cloud, fails).disk THEN "None" ELSE "Stopped")
    ELSE WithResult(Outcome(nil, cloud, drv, <<getInstance>>),
                    CASE inst.Status \in {"PROVISIONING", "STAGING"} -> "Starting"
                      [] inst.Status = "RUNNING" -> "Running"
                      [] inst.Status \in {"STOPPING", "STOPPED", "TERMINATED"} -> "Stopped"
                      [] OTHER -> "None")

\* getInstance of the amazonec2 driver: [instance, err].
getInstance(drv, cloud, fails) ==
    IF "DescribeInstances" \in fails
    THEN [instance |-> NoEc2Instance, err |-> "backendError"]
    ELSE IF ~cloud.ec2Instances.exists
    THEN [instance |-> NoEc2Instance, err |-> "error getting instance"]
    ELSE [instance |-> cloud.ec2Instances, err |-> nil]

\* Driver.GetState of the amazonec2 driver.
Ec2GetState(drv, cloud, fails) ==
    LET describe == Call("DescribeInstances", drv.InstanceId)
        inst == getInstance(drv, cloud, fails)
    IN
    IF inst.err # nil
    THEN WithResult(Outcome(inst.err, cloud, drv, <<describe>>), "Error")
    ELSE WithResult(Outcome(nil, cloud, drv, <<describe>>),
                    CASE inst.instance.State = "pending" -> "Starting"
                      [] inst.instance.State = "running" -> "Running"
                      [] inst.instance.State = "stopping" -> "Stopping"
                      [] inst.instance.State = "shutting-down" -> "Stopping"
                      [] inst.instance.State = "stopped" -> "Stopped"
                      [] inst.instance.State = "terminated" -> "Error"
                      [] OTHER -> "Error")

(***************************************************************************)
(* GetIP, Start, Stop, Restart and Kill of both drivers.  newIP is the     *)
(* address the backend gives an instance that starts.  d.UseInternalIP,    *)
(* d.PrivateIPOnly and d.UsePrivateIP are false throughout.                *)
(***************************************************************************)
\* c.ip(): [ip, err].
ip(c, cloud, fails) ==
    IF instanceGet(cloud, fails).err # nil
    THEN [ip |-> "", err |-> instanceGet(cloud, fails).err]
    ELSE [ip |-> cloud.instance.NatIP, err |-> nil]

\* Driver.GetIP of the google driver.
GoogleGetIP(drv, cloud, fails) ==
    LET get == Call("Instances.Get", drv.MachineName)
        got == ip(newComputeUtil(drv), cloud, fails)
    IN
    IF drv.IPAddress # "" THEN WithResult(Outcome(nil, cloud, drv, <<>>), drv.IPAddress)
    ELSE IF got.err # nil THEN WithResult(Outcome(got.err, cloud, drv, <<get>>), "")
    ELSE IF got.ip = ""
    THEN WithResult(Outcome("Host is not running", cloud, drv, <<get>>), "")
    ELSE WithResult(Outcome(nil, cloud, [drv EXCEPT !.IPAddress = got.ip], <<get>>),
                    got.ip)

\* startInstance.
startInstance(c, drv, cloud, calls, fails, newIP) ==
    LET start == Call("Instances.Start", drv.MachineName)
        started == [cloud EXCEPT
                      !.instance.Status = "RUNNING",
                      !.instance.NatIP = IF @ = "" THEN newIP ELSE @]
    IN
    IF "Instances.Start" \in fails
    THEN Outcome("backendError", cloud, drv, Append(calls, start))
    ELSE IF ~cloud.instance.exists
    THEN Outcome("notFound", cloud, drv, Append(calls, start))
    ELSE waitForRegionalOp(c, drv, started, Append(calls, start), "Instances.Start",
                           fails)

\* stopInstance.  A stopped instance has no external address.
stopInstance(c, drv, cloud, calls, fails) ==
    LET stop == Call("Instances.Stop", drv.MachineName)
        stopped == [cloud EXCEPT !.instance.Status = "TERMINATED",
                                 !.instance.NatIP = ""]
    IN
    IF "Instances.Stop" \in fails
    THEN Outcome("backendError", cloud, drv, Append(calls, stop))
    ELSE IF ~cloud.instance.exists
    THEN Outcome("notFound", cloud, drv, Append(calls, stop))
    ELSE waitForRegionalOp(c, drv, stopped, Append(calls, stop), "Instances.Stop",
                           fails)

\* Driver.Start of the google driver.
GoogleStart(drv, cloud, fails, newIP) ==
    LET c == newComputeUtil(drv)
        got == instanceGet(cloud, fails)
        calls == <<Call("Instances.Get", drv.MachineName)>>
    IN
    IF got.err # nil /\ ~isNotFound(got.err) THEN Outcome(got.err, cloud, drv, calls)
    ELSE TheOne({
      IF stepped.err # nil THEN stepped
      ELSE TheOne({
        Outcome(got2.err, got2.cloud, [drv EXCEPT !.IPAddress = got2.result],
                stepped.calls \o got2.calls)
        : got2 \in {GoogleGetIP(drv, stepped.cloud, fails)}})
      : stepped \in {IF ~got.instance.exists
                     THEN createInstance(c, drv, cloud, calls, fails)
                     ELSE startInstance(c, drv, cloud, calls, fails, newIP)}})

\* Driver.Stop of the google driver.
GoogleStop(drv, cloud, fails) ==
    TheOne({
      IF stopped.err # nil THEN stopped
      ELSE Outcome(nil, stopped.cloud, [drv EXCEPT !.IPAddress = ""], stopped.calls)
      : stopped \in {stopInstance(newComputeUtil(drv), drv, cloud, <<>>, fails)}})

\* Mutant of GoogleRestart: Start is called whatever Stop returned.
GoogleRestart_startsAnyway(drv, cloud, fails, newIP) ==
    TheOne({
      TheOne({
        Outcome(started.err, started.cloud, started.d, stopped.calls \o started.calls)
        : started \in {GoogleStart(stopped.d, stopped.cloud, fails, newIP)}})
      : stopped \in {GoogleStop(drv, cloud, fails)}})

\* Driver.Restart of the google driver.
GoogleRestart(drv, cloud, fails, newIP) ==
    TheOne({
      IF stopped.err # nil THEN stopped
      ELSE TheOne({
        Outcome(started.err, started.cloud, started.d, stopped.calls \o started.calls)
        : started \in {GoogleStart(stopped.d, stopped.cloud, fails, newIP)}})
      : stopped \in {GoogleStop(drv, cloud, fails)}})

\* Driver.Kill of the google driver.
GoogleKill(drv, cloud, fails) == GoogleStop(drv, cloud, fails)

\* Driver.GetIP of the amazonec2 driver.  The address it looks up is
\* returned and not stored; d.IPAddress is set by instanceIpAvailable.
Ec2GetIP(drv, cloud, fails) ==
    LET describe == Call("DescribeInstances", drv.InstanceId)
        inst == getInstance(drv, cloud, fails)
    IN
    IF drv.IPAddress # "" THEN WithResult(Outcome(nil, cloud, drv, <<>>), drv.IPAddress)
    ELSE IF inst.err # nil THEN WithResult(Outcome(inst.err, cloud, drv, <<describe>>), "")
    ELSE IF inst.instance.PublicIpAddress = ""
    THEN WithResult(Outcome("No IP for instance", cloud, drv, <<describe>>), "")
    ELSE WithResult(Outcome(nil, cloud, drv, <<describe>>),
                    inst.instance.PublicIpAddress)

\* A call that changes the state of the instance d.InstanceId: the error
\* of the backend, nil when it accepts the call.
instanceCallErr(api, drv, cloud, fails) ==
    IF api \in fails THEN "backendError"
    ELSE IF drv.InstanceId = "" \/ ~cloud.ec2Instances.exists
    THEN "InvalidInstanceID"
    ELSE IF ~Ec2Live(cloud.ec2Instances) THEN "IncorrectInstanceState"
    ELSE nil

\* Driver.Start of the amazonec2 driver; waitForInstance polls GetState.
Ec2Start(drv, cloud, fails, newIP) ==
    LET start == Call("StartInstances", drv.InstanceId)
        describe == Call("DescribeInstances", drv.InstanceId)
        started == [cloud EXCEPT
                      !.ec2Instances.State = "running",
                      !.ec2Instances.PublicIpAddress = IF @ = "" THEN newIP ELSE @]
    IN
    IF instanceCallErr("StartInstances", drv, cloud, fails) # nil
    THEN Outcome(instanceCallErr("StartInstances", drv, cloud, fails), cloud, drv,
                 <<start>>)
    ELSE IF "DescribeInstances" \in fails
    THEN Outcome("Maximum number of retries (60) exceeded", started, drv,
                 <<start, describe>>)
    ELSE Outcome(nil, started, drv, <<start, describe>>)

\* Driver.Stop (force = FALSE) and Driver.Kill (force = TRUE) of the
\* amazonec2 driver.  A stopped instance has no public address.
Ec2StopInstances(drv, cloud, fails, force) ==
    LET stop == Call("StopInstances", <<drv.InstanceId, force>>)
        stopped == [cloud EXCEPT !.ec2Instances.State = "stopped",
                                 !.ec2Instances.PublicIpAddress = ""]
    IN
    IF instanceCallErr("StopInstances", drv, cloud, fails) # nil
    THEN Outcome(instanceCallErr("StopInstances", drv, cloud, fails), cloud, drv,
                 <<stop>>)
    ELSE Outcome(nil, stopped, drv, <<stop>>)

Ec2Stop(drv, cloud, fails) == Ec2StopInstances(drv, cloud, fails, FALSE)

Ec2Kill(drv, cloud, fails) == Ec2StopInstances(drv, cloud, fails, TRUE)

\* Driver.Restart of the amazonec2 driver.
Ec2Restart(drv, cloud, fails) ==
    LET reboot == Call("RebootInstances", drv.InstanceId) IN
    Outcome(instanceCallErr("RebootInstances", drv, cloud, fails), cloud, drv,
            <<reboot>>)

RunWith(max, op, fails, input, outcome) ==
    /\ Len(hist) < max
    /\ \E out \in {outcome} :
         /\ hist' = Append(hist, [op |-> op, fails |-> fails, input |-> input,
                                  err |-> out.err,
                                  calls |-> out.calls, cloud |-> Cloud, d |-> d,
                                  after |-> out.cloud, dAfter |-> out.d,
                                  result |-> ResultOf(out)])
         /\ d' = out.d
         /\ firewall' = out.cloud.firewall
         /\ instance' = out.cloud.instance
         /\ disk' = out.cloud.disk
         /\ projectValid' = out.cloud.projectValid
         /\ groups' = out.cloud.groups
         /\ keyPairs' = out.cloud.keyPairs
         /\ ec2Instances' = out.cloud.ec2Instances
         /\ subnets' = out.cloud.subnets
         /\ swarmPort' = IF "swarmPort" \in DOMAIN out THEN out.swarmPort ELSE swarmPort
    /\ UNCHANGED <<driverName, pc, fetched, poll>>

\* A handler without options.
RunUpTo(max, op, fails, outcome) == RunWith(max, op, fails, <<>>, outcome)

Run(op, fails, outcome) == RunUpTo(MaxRuns, op, fails, outcome)

\* At most one backend call answers with an error during a handler.
FailSets(apis) == {{}} \cup {{a} : a \in apis}

MapOrders == {<<"tcp", "udp">>, <<"udp", "tcp">>}

(***************************************************************************)
(* Specification SpecReconcile: the two reconcilers, run on their own.     *)
(***************************************************************************)
InitReconcile ==
    /\ driverName \in {"google", "amazonec2"}
    /\ hist = <<>>
    /\ NoWorkflows
    /\ IF driverName = "google"
       THEN /\ Ec2Idle
            /\ d \in {GoogleDriver(FALSE, ports, skip, swarm) :
                         ports \in OpenPortLists, skip \in BOOLEAN,
                         swarm \in BOOLEAN}
            /\ firewall \in FirewallPresets
            /\ instance = NoInstance /\ disk = FALSE /\ projectValid = TRUE
       ELSE /\ GoogleIdle
            /\ d \in {Ec2Driver(names, ro, ports, swarm, "", "subnet-1", FALSE) :
                         names \in {<<"docker-machine">>, <<"docker-machine", "extra">>},
                         ro \in BOOLEAN, ports \in OpenPortLists,
                         swarm \in BOOLEAN}
            /\ swarmPort = defaultSwarmPort
            /\ groups \in {[n \in GroupNames |->
                               IF n = "extra" THEN NoSecurityGroup(n) ELSE g] :
                             g \in GroupPresets("docker-machine")}
            /\ keyPairs = {} /\ ec2Instances = NoEc2Instance /\ subnets = <<>>

GoogleOpenFirewallPorts ==
    /\ driverName = "google"
    /\ \E fails \in FailSets({"Firewalls.Get", "Firewalls.Update",
                               "GlobalOperations.Wait"}),
          order \in MapOrders :
          Run("openFirewallPorts", fails,
              openFirewallPorts(newComputeUtil(d), d, Cloud, fails, order))

Ec2ConfigureSecurityGroups ==
    /\ driverName = "amazonec2"
    /\ \E fails \in FailSets({"DescribeSecurityGroups", "CreateSecurityGroup",
                               "DescribeSecurityGroups.GroupIds",
                               "AuthorizeSecurityGroupIngress"}) :
          Run("configureSecurityGroups", fails,
              configureSecurityGroups(d, securityGroupNames(d), Cloud, fails))

NextReconcile == GoogleOpenFirewallPorts \/ Ec2ConfigureSecurityGroups

SpecReconcile == InitReconcile /\ [][NextReconcile]_vars

(***************************************************************************)
(* Specification SpecConcurrent: two Create workflows for different hosts  *)
(* of one project reconcile the shared firewall rule object at the same    *)
(* time.  Here d[w] is the Driver of workflow w, and openFirewallPorts is  *)
(* split where it talks to the backend: the lookup of the rule, and the    *)
(* update that writes the extended rule back.  hist[1] keeps the backend   *)
(* state both workflows start from.                                        *)
(***************************************************************************)
InitConcurrent ==
    /\ driverName = "google"
    /\ Ec2Idle
    /\ d \in [Workflows ->
                {GoogleDriver(FALSE, ports, FALSE, swarm) :
                   ports \in OpenPortLists, swarm \in BOOLEAN}]
    /\ firewall \in FirewallPresets
    /\ instance = NoInstance /\ disk = FALSE /\ projectValid = TRUE
    /\ pc = idlePc
    /\ fetched = [w \in Workflows |-> NoFirewall]
    /\ poll = idlePoll
    /\ hist = <<[op |-> "start", fails |-> {}, err |-> nil, calls |-> <<>>,
                 cloud |-> Cloud, d |-> d, after |-> Cloud, dAfter |-> d]>>

\* rule, err := c.firewallRule(), and the return on its error.
FetchFirewallRule(w) ==
    /\ pc[w] = "idle"
    /\ \E fails \in FailSets({"Firewalls.Get"}) :
         LET got == firewallRule(Cloud, fails) IN
         IF got.err # nil
         THEN /\ pc' = [pc EXCEPT ![w] = "failed"]
              /\ UNCHANGED fetched
         ELSE /\ pc' = [pc EXCEPT ![w] = "fetched"]
              /\ fetched' = [fetched EXCEPT ![w] = got.rule]
    /\ UNCHANGED <<driverName, d, swarmPort, googleBackend, ec2Backend, hist, poll>>

\* The rest of openFirewallPorts: the missing ports are appended to the
\* fetched rule, which Firewalls.Update writes over the backend's rule.
WriteFirewallRule(w) ==
    /\ pc[w] = "fetched"
    /\ \E fails \in FailSets({"Firewalls.Update", "GlobalOperations.Wait"}),
          order \in MapOrders :
         LET c == newComputeUtil(d[w])
             missingPorts == missingOpenedPorts(fetched[w], portsUsed(c))
             rule == [fetched[w] EXCEPT
                        !.Allowed = appendMissing(@, missingPorts, order)]
         IN
         IF DOMAIN missingPorts = {}
         THEN /\ pc' = [pc EXCEPT ![w] = "ok"]
              /\ UNCHANGED firewall
         ELSE IF "Firewalls.Update" \in fails
         THEN /\ pc' = [pc EXCEPT ![w] = "failed"]
              /\ UNCHANGED firewall
         ELSE /\ firewall' = rule
              /\ pc' = [pc EXCEPT ![w] =
                          IF waitForOp(c, "GlobalOperations.Wait", fails) = nil
                          THEN "ok" ELSE "failed"]
    /\ UNCHANGED <<driverName, d, swarmPort, instance, disk, projectValid,
                   ec2Backend, hist, fetched, poll>>

NextConcurrent ==
    \E w \in Workflows : FetchFirewallRule(w) \/ WriteFirewallRule(w)

SpecConcurrent == InitConcurrent /\ [][NextConcurrent]_vars

(***************************************************************************)
(* Specification SpecCreate: PreCreateCheck and Create of both drivers,    *)
(* run as whole handlers against the backend states a host can meet.       *)
(***************************************************************************)
CreateOpenPortLists == {<<>>, <<PortProto("8080", "tcp")>>}

InstancePresets ==
    {NoInstance,
     Instance("RUNNING", <<>>, <<>>, "203.0.113.10"),
     Instance("RUNNING", <<firewallTargetTag>>, <<"startup-script">>, "203.0.113.10")}

SubnetPresets ==
    {<<>>,
     <<Subnet("subnet-1", FALSE)>>,
     <<Subnet("subnet-1", FALSE), Subnet("subnet-2", TRUE)>>}

InitCreate ==
    /\ driverName \in {"google", "amazonec2"}
    /\ hist = <<>>
    /\ NoWorkflows
    /\ IF driverName = "google"
       THEN /\ Ec2Idle
            /\ d \in {GoogleDriver(reuse, ports, skip, FALSE) :
                         reuse \in BOOLEAN, ports \in CreateOpenPortLists,
                         skip \in BOOLEAN}
            /\ firewall \in {NoFirewall,
                             Firewall(<<FirewallAllowed("tcp", <<"2376">>)>>,
                                      {"0.0.0.0/0"}, {firewallTargetTag}, "default")}
            /\ instance \in InstancePresets
            /\ disk \in BOOLEAN
            /\ projectValid \in BOOLEAN
       ELSE /\ GoogleIdle
            /\ d \in {[Ec2Driver(<<"docker-machine">>, FALSE,
                                 <<PortProto("8080", "tcp")>>, FALSE, keyName,
                                 subnetId, spot)
                         EXCEPT !.UserDataFile = userdata] :
                         keyName \in {"", "mykey"},
                         subnetId \in {"", "subnet-1"}, spot \in BOOLEAN,
                         userdata \in {"", "userdata.sh"}}
            /\ swarmPort = defaultSwarmPort
            /\ groups \in {[n \in GroupNames |->
                               IF n = "extra" THEN NoSecurityGroup(n) ELSE g] :
                             g \in {NoSecurityGroup("docker-machine"),
                                    SecurityGroup("docker-machine",
                                       <<IpPermission("tcp", 22, ipRange),
                                         IpPermission("tcp", 2376, ipRange)>>)}}
            /\ keyPairs \in {{}, {"mykey"}, {machineName}}
            /\ ec2Instances = NoEc2Instance
            /\ subnets \in SubnetPresets

RunGooglePreCreateCheck ==
    /\ driverName = "google"
    /\ \E fails \in FailSets({"Instances.Get"}) :
          Run("google.PreCreateCheck", fails, GooglePreCreateCheck(d, Cloud, fails))

RunGoogleCreate ==
    /\ driverName = "google"
    /\ \E fails \in FailSets({"GenerateSSHKey", "Firewalls.Get", "Firewalls.Update",
                               "GlobalOperations.Wait", "Disks.Get",
                               "Instances.Insert", "ZoneOperations.Wait",
                               "Instances.Get", "Instances.SetTags", "ReadFile",
                               "Instances.SetMetadata"}),
          order \in MapOrders :
          Run("google.Create", fails, GoogleCreate(d, Cloud, fails, order))

RunEc2PreCreateCheck ==
    /\ driverName = "amazonec2"
    /\ \E fails \in FailSets({"DescribeKeyPairs", "DescribeKeyPairs.transport",
                               "DescribeSubnets"}) :
          Run("amazonec2.PreCreateCheck", fails, Ec2PreCreateCheck(d, Cloud, fails))

RunEc2Create ==
    /\ driverName = "amazonec2"
    /\ \E fails \in FailSets({"DescribeKeyPairs", "DescribeSubnets",
                               "GenerateSSHKey", "CopyFile", "ReadFile",
                               "ImportKeyPair", "DescribeSecurityGroups",
                               "CreateSecurityGroup", "DescribeSecurityGroups.GroupIds",
                               "AuthorizeSecurityGroupIngress", "ReadFile.userdata",
                               "RunInstances", "CreateTags", "DescribeInstances"}) :
          Run("amazonec2.Create", fails, Ec2Create(d, Cloud, fails))

NextCreate ==
    \/ RunGooglePreCreateCheck
    \/ RunGoogleCreate
    \/ RunEc2PreCreateCheck
    \/ RunEc2Create

SpecCreate == InitCreate /\ [][NextCreate]_vars

(***************************************************************************)
(* Specification SpecTeardown: SetConfigFromFlags, Create and Remove of    *)
(* the amazonec2 driver and Remove of the google driver, in any order.     *)
(***************************************************************************)
MaxTeardownRuns == 3    \* handlers run in one behaviour of SpecTeardown

\* The errors the two deleting calls of the amazonec2 Remove can answer.
CleanupFailSets == SUBSET {"TerminateInstances", "DeleteKeyPair"}

\* A failing creation step, alone or with failing calls of the cleanup.
TeardownCreateFailSets ==
    FailSets({"DescribeKeyPairs", "ImportKeyPair", "RunInstances"})
    \cup {{"DescribeInstances"} \cup c : c \in CleanupFailSets}
    \cup {{"RunInstances", "DeleteKeyPair"}}

KeyFlags ==
    {[keypairName |-> k[1], sshKeypath |-> k[2], endpoint |-> "",
      insecureTransport |-> FALSE] :
       k \in {<<"", "">>, <<"mykey", "user_rsa">>, <<"mykey", "">>, <<"", "user_rsa">>}}

InitTeardown ==
    /\ driverName \in {"google", "amazonec2"}
    /\ hist = <<>>
    /\ NoWorkflows
    /\ IF driverName = "google"
       THEN /\ Ec2Idle
            /\ d = GoogleDriver(FALSE, <<>>, FALSE, FALSE)
            /\ firewall = NoFirewall
            /\ instance \in InstancePresets
            /\ disk \in BOOLEAN
            /\ projectValid = TRUE
       ELSE /\ GoogleIdle
            /\ d \in {Ec2Driver(<<"docker-machine">>, FALSE, <<>>, FALSE, keyName,
                                "subnet-1", FALSE) : keyName \in {"", "mykey"}}
            /\ swarmPort = defaultSwarmPort
            /\ groups = [n \in GroupNames |->
                           IF n = "extra" THEN NoSecurityGroup(n)
                           ELSE SecurityGroup(n, <<IpPermission("tcp", 22, ipRange),
                                                   IpPermission("tcp", 2376, ipRange)>>)]
            /\ keyPairs \in {{"mykey"}, {"mykey", machineName}}
            /\ ec2Instances = NoEc2Instance
            /\ subnets = <<Subnet("subnet-1", FALSE)>>

TeardownEc2SetConfig ==
    /\ driverName = "amazonec2"
    /\ \E flags \in KeyFlags :
          RunUpTo(MaxTeardownRuns, "amazonec2.SetConfigFromFlags", {},
                  Ec2SetConfigFromFlags(d, flags, Cloud, {}))

TeardownEc2Create ==
    /\ driverName = "amazonec2"
    /\ \E fails \in TeardownCreateFailSets :
          RunUpTo(MaxTeardownRuns, "amazonec2.Create", fails,
                  Ec2Create(d, Cloud, fails))

TeardownEc2Remove ==
    /\ driverName = "amazonec2"
    /\ \E fails \in CleanupFailSets :
          RunUpTo(MaxTeardownRuns, "amazonec2.Remove", fails,
                  Ec2Remove(d, Cloud, fails))

TeardownGoogleRemove ==
    /\ driverName = "google"
    /\ \E fails \in FailSets({"Instances.Delete", "ZoneOperations.Wait",
                               "Disks.Get", "Disks.Delete"}),
          autoDelete \in BOOLEAN :
          RunUpTo(MaxTeardownRuns, "google.Remove", fails,
                  GoogleRemove(d, Cloud, fails, autoDelete))

NextTeardown ==
    \/ TeardownEc2SetConfig
    \/ TeardownEc2Create
    \/ TeardownEc2Remove
    \/ TeardownGoogleRemove

SpecTeardown == InitTeardown /\ [][NextTeardown]_vars

(***************************************************************************)
(* Specification SpecState: GetState of both drivers, against every        *)
(* status the backend can report for the instance and with the instance    *)
(* and the disk present or absent.                                         *)
(***************************************************************************)
\* Instance.Status of the Compute Engine API: the statuses GetState names
\* and three it does not.
GoogleStatuses ==
    {"PROVISIONING", "STAGING", "RUNNING", "STOPPING", "STOPPED", "TERMINATED",
     "SUSPENDING", "SUSPENDED", "REPAIRING"}

\* InstanceState.Name of the EC2 API, and a name the SDK does not know.
Ec2StateNames ==
    {"pending", "running", "stopping", "shutting-down", "stopped", "terminated",
     "unknown-state"}

InitState ==
    /\ driverName \in {"google", "amazonec2"}
    /\ hist = <<>>
    /\ NoWorkflows
    /\ IF driverName = "google"
       THEN /\ Ec2Idle
            /\ d = GoogleDriver(FALSE, <<>>, FALSE, FALSE)
            /\ firewall = NoFirewall
            /\ instance \in {NoInstance}
                 \cup {Instance(st, <<>>, <<>>, "203.0.113.10") : st \in GoogleStatuses}
            /\ disk \in BOOLEAN
            /\ projectValid = TRUE
       ELSE /\ GoogleIdle
            /\ d = [Ec2Driver(<<"docker-machine">>, FALSE, <<>>, FALSE, "",
                              "subnet-1", FALSE) EXCEPT !.InstanceId = instanceId]
            /\ swarmPort = defaultSwarmPort
            /\ groups = noGroups
            /\ keyPairs = {machineName}
            /\ ec2Instances \in {NoEc2Instance}
                 \cup {Ec2Instance(st, "203.0.113.20") : st \in Ec2StateNames}
            /\ subnets = <<Subnet("subnet-1", FALSE)>>

RunGoogleGetState ==
    /\ driverName = "google"
    /\ \E fails \in SUBSET {"Instances.Get", "Disks.Get"} \cup {{"newComputeUtil"}} :
          Run("google.GetState", fails, GoogleGetState(d, Cloud, fails))

RunEc2GetState ==
    /\ driverName = "amazonec2"
    /\ \E fails \in SUBSET {"DescribeInstances"} :
          Run("amazonec2.GetState", fails, Ec2GetState(d, Cloud, fails))

\* The backend moves the instance to another status on its own.
BackendChangesStatus ==
    /\ Len(hist) < MaxRuns
    /\ \/ /\ driverName = "google" /\ instance.exists
          /\ \E st \in GoogleStatuses : instance' = [instance EXCEPT !.Status = st]
          /\ UNCHANGED ec2Instances
       \/ /\ driverName = "amazonec2" /\ ec2Instances.exists
          /\ \E st \in Ec2StateNames : ec2Instances' = [ec2Instances EXCEPT !.State = st]
          /\ UNCHANGED instance
    /\ UNCHANGED <<driverName, d, swarmPort, firewall, disk, projectValid,
                   groups, keyPairs, subnets, hist, pc, fetched, poll>>

NextState ==
    \/ RunGoogleGetState
    \/ RunEc2GetState
    \/ BackendChangesStatus

SpecState == InitState /\ [][NextState]_vars

(***************************************************************************)
(* Specification SpecPoller: one waitForOp against every list of answers   *)
(* of up to MaxPolls fetches, with the default backoff, a backoff that     *)
(* gives up early and no backoff factory.                                  *)
(***************************************************************************)
\* A backoffFactory whose MaxElapsedTime is over after two sleeps.
shortBackoffFactory ==
    [InitialInterval |-> 1, Multiplier |-> 2, MaxInterval |-> 2,
     MaxElapsedTime |-> 2]

BackoffFactories == {<<defaultBackoffFactory>>, <<shortBackoffFactory>>, nilFactory}

AnswerLists == UNION {[1..n -> OpAnswers] : n \in 1..MaxPolls}

InitPoller ==
    /\ driverName = "google"
    /\ hist = <<>>
    /\ NoWorkflows
    /\ Ec2Idle
    /\ d \in {[GoogleDriver(FALSE, <<>>, FALSE, FALSE)
                 EXCEPT !.OperationBackoffFactory = f] : f \in BackoffFactories}
    /\ firewall = NoFirewall
    /\ instance = Instance("RUNNING", <<>>, <<>>, "203.0.113.10")
    /\ disk = TRUE
    /\ projectValid = TRUE

RunWaitForOp ==
    /\ hist = <<>>
    /\ \E answers \in AnswerLists :
         \E polled \in {waitForOpPolling(newComputeUtil(d), answers)} :
           Run("google.waitForOp", {},
               WithResult(Outcome(polled.err, Cloud, d, <<>>),
                          [answers |-> answers, trace |-> polled.trace]))

NextPoller == RunWaitForOp

SpecPoller == InitPoller /\ [][NextPoller]_vars

(***************************************************************************)
(* Specification SpecPollSteps: waitForOp statement by statement.  Every   *)
(* fetch brings any answer; the caller may signal cancellation at any time *)
(* of the wait.  The time elapsed is kept up to MaxElapsedTime + 1, which  *)
(* is all NextBackOff compares.  SpecPollStepsFair adds that the process   *)
(* keeps running: a fetch returns and a sleep ends.                        *)
(***************************************************************************)
\* google-operation-backoff-max-elapsed-time 0.
unlimitedBackoffFactory ==
    [InitialInterval |-> 1, Multiplier |-> 2, MaxInterval |-> 2,
     MaxElapsedTime |-> 0]

StepBackoffFactories == BackoffFactories \cup {<<unlimitedBackoffFactory>>}

InitPollSteps ==
    /\ driverName = "google"
    /\ hist = <<>>
    /\ pc = idlePc /\ fetched = [w \in Workflows |-> NoFirewall]
    /\ poll = idlePoll
    /\ Ec2Idle
    /\ d \in {[GoogleDriver(FALSE, <<>>, FALSE, FALSE)
                 EXCEPT !.OperationBackoffFactory = f] : f \in StepBackoffFactories}
    /\ firewall = NoFirewall
    /\ instance = Instance("RUNNING", <<>>, <<>>, "203.0.113.10")
    /\ disk = TRUE
    /\ projectValid = TRUE

PollReturns(err) == [poll EXCEPT !.pc = "returned", !.err = err]

\* The test of the factory, create() and Reset().
PollStart ==
    /\ poll.pc = "idle"
    /\ poll' = IF newComputeUtil(d).operationBackoffFactory = nilFactory
               THEN PollReturns("operationBackoffFactory is not defined")
               ELSE [poll EXCEPT
                       !.pc = "fetch",
                       !.b = createBackoff(newComputeUtil(d).operationBackoffFactory[1])]
    /\ UNCHANGED <<driverName, d, swarmPort, googleBackend, ec2Backend, hist,
                   pc, fetched>>

\* opGetter(), the test of its answer and, for an operation that is not
\* DONE, b.NextBackOff().
PollFetch ==
    /\ poll.pc = "fetch"
    /\ \E answer \in OpAnswers :
         poll' = [(CASE answer = "FETCH_ERROR" -> PollReturns("backendError")
                     [] answer = "DONE_ERROR" -> PollReturns("operation error")
                     [] answer = "DONE" -> PollReturns(nil)
                     [] NextBackOff(poll.b).next = backoffStop ->
                          PollReturns("maximum backoff elapsed time exceeded")
                     [] OTHER -> [poll EXCEPT !.pc = "sleep",
                                              !.next = NextBackOff(poll.b).next,
                                              !.b = NextBackOff(poll.b).b])
                  EXCEPT !.last = answer]
    /\ UNCHANGED <<driverName, d, swarmPort, googleBackend, ec2Backend, hist,
                   pc, fetched>>

\* time.Sleep(next) returns.
PollSleep ==
    /\ poll.pc = "sleep"
    /\ poll' = [poll EXCEPT
                  !.pc = "fetch",
                  !.b.elapsed = Min(@ + poll.next, poll.b.MaxElapsedTime + 1)]
    /\ UNCHANGED <<driverName, d, swarmPort, googleBackend, ec2Backend, hist,
                   pc, fetched>>

\* The caller of the driver signals cancellation.  waitForOp takes no
\* context and no channel: nothing in it reads the signal.
CallerCancels ==
    /\ poll.pc \in {"fetch", "sleep"}
    /\ ~poll.cancelled
    /\ poll' = [poll EXCEPT !.cancelled = TRUE]
    /\ UNCHANGED <<driverName, d, swarmPort, googleBackend, ec2Backend, hist,
                   pc, fetched>>

NextPollSteps ==
    \/ PollStart
    \/ PollFetch
    \/ PollSleep
    \/ CallerCancels

SpecPollSteps == InitPollSteps /\ [][NextPollSteps]_vars

SpecPollStepsFair ==
    /\ SpecPollSteps
    /\ WF_vars(PollStart) /\ WF_vars(PollFetch) /\ WF_vars(PollSleep)

(***************************************************************************)
(* Specification SpecLifecycle: the calls libmachine makes on one driver   *)
(* object (PreCreateCheck, Create, GetIP, Start, Stop, Restart, Kill,      *)
(* Remove), in any order, for either driver.                               *)
(***************************************************************************)
MaxLifecycleRuns == 3    \* handlers run in one behaviour of SpecLifecycle

\* The external addresses the backend hands out.
IpPool == {"203.0.113.10", "203.0.113.11"}

InitLifecycle ==
    /\ driverName \in {"google", "amazonec2"}
    /\ hist = <<>>
    /\ NoWorkflows
    /\ IF driverName = "google"
       THEN /\ Ec2Idle
            /\ d = GoogleDriver(FALSE, <<>>, TRUE, FALSE)
            /\ firewall = NoFirewall
            /\ instance \in {NoInstance, Instance("RUNNING", <<>>, <<>>, "203.0.113.11")}
            /\ disk \in {instance.exists, TRUE}
            /\ projectValid = TRUE
       ELSE /\ GoogleIdle
            /\ d \in {Ec2Driver(<<"docker-machine">>, FALSE, <<>>, FALSE, keyName,
                                "subnet-1", FALSE) : keyName \in {"", callerKeyName}}
            /\ swarmPort = defaultSwarmPort
            /\ groups = [n \in GroupNames |->
                           IF n = "extra" THEN NoSecurityGroup(n)
                           ELSE SecurityGroup(n, <<IpPermission("tcp", 22, ipRange),
                                                   IpPermission("tcp", 2376, ipRange)>>)]
            /\ keyPairs = {callerKeyName}
            /\ ec2Instances = NoEc2Instance
            /\ subnets = <<Subnet("subnet-1", FALSE)>>

LifecycleGooglePreCreateCheck ==
    /\ driverName = "google"
    /\ RunUpTo(MaxLifecycleRuns, "google.PreCreateCheck", {}, GooglePreCreateCheck(d, Cloud, {}))

LifecycleGoogleCreate ==
    /\ driverName = "google"
    /\ \E fails \in FailSets({"ZoneOperations.Wait"}) :
          RunUpTo(MaxLifecycleRuns, "google.Create", fails, GoogleCreate(d, Cloud, fails, <<"tcp", "udp">>))

LifecycleGoogleGetIP ==
    /\ driverName = "google"
    /\ \E fails \in FailSets({"Instances.Get"}) :
          RunUpTo(MaxLifecycleRuns, "google.GetIP", fails, GoogleGetIP(d, Cloud, fails))

LifecycleGoogleStart ==
    /\ driverName = "google"
    /\ \E fails \in FailSets({"Instances.Start", "Disks.Get"}), newIP \in IpPool :
          RunUpTo(MaxLifecycleRuns, "google.Start", fails, GoogleStart(d, Cloud, fails, newIP))

LifecycleGoogleStop ==
    /\ driverName = "google"
    /\ \E fails \in FailSets({"Instances.Stop", "ZoneOperations.Wait"}) :
          RunUpTo(MaxLifecycleRuns, "google.Stop", fails, GoogleStop(d, Cloud, fails))

LifecycleGoogleRestart ==
    /\ driverName = "google"
    /\ \E fails \in FailSets({"Instances.Stop", "ZoneOperations.Wait",
                              "Instances.Start", "Instances.Get"}),
          newIP \in IpPool :
          RunUpTo(MaxLifecycleRuns, "google.Restart", fails, GoogleRestart(d, Cloud, fails, newIP))

LifecycleGoogleKill ==
    /\ driverName = "google"
    /\ RunUpTo(MaxLifecycleRuns, "google.Kill", {}, GoogleKill(d, Cloud, {}))

LifecycleGoogleRemove ==
    /\ driverName = "google"
    /\ RunUpTo(MaxLifecycleRuns, "google.Remove", {}, GoogleRemove(d, Cloud, {}, TRUE))

LifecycleGoogleGetState ==
    /\ driverName = "google"
    /\ RunUpTo(MaxLifecycleRuns, "google.GetState", {}, GoogleGetState(d, Cloud, {}))

LifecycleEc2GetState ==
    /\ driverName = "amazonec2"
    /\ RunUpTo(MaxLifecycleRuns, "amazonec2.GetState", {}, Ec2GetState(d, Cloud, {}))

LifecycleEc2PreCreateCheck ==
    /\ driverName = "amazonec2"
    /\ RunUpTo(MaxLifecycleRuns, "amazonec2.PreCreateCheck", {}, Ec2PreCreateCheck(d, Cloud, {}))

LifecycleEc2Create ==
    /\ driverName = "amazonec2"
    /\ \E fails \in {{}, {"DescribeInstances", "TerminateInstances"},
                      {"waitForInstance"}} :
          RunUpTo(MaxLifecycleRuns, "amazonec2.Create", fails, Ec2Create(d, Cloud, fails))

LifecycleEc2GetIP ==
    /\ driverName = "amazonec2"
    /\ \E fails \in FailSets({"DescribeInstances"}) :
          RunUpTo(MaxLifecycleRuns, "amazonec2.GetIP", fails, Ec2GetIP(d, Cloud, fails))

LifecycleEc2Start ==
    /\ driverName = "amazonec2"
    /\ \E fails \in FailSets({"StartInstances"}), newIP \in IpPool :
          RunUpTo(MaxLifecycleRuns, "amazonec2.Start", fails, Ec2Start(d, Cloud, fails, newIP))

LifecycleEc2Stop ==
    /\ driverName = "amazonec2"
    /\ \E fails \in FailSets({"StopInstances"}) :
          RunUpTo(MaxLifecycleRuns, "amazonec2.Stop", fails, Ec2Stop(d, Cloud, fails))

LifecycleEc2Restart ==
    /\ driverName = "amazonec2"
    /\ \E fails \in FailSets({"RebootInstances"}) :
          RunUpTo(MaxLifecycleRuns, "amazonec2.Restart", fails, Ec2Restart(d, Cloud, fails))

LifecycleEc2Kill ==
    /\ driverName = "amazonec2"
    /\ RunUpTo(MaxLifecycleRuns, "amazonec2.Kill", {}, Ec2Kill(d, Cloud, {}))

LifecycleEc2Remove ==
    /\ driverName = "amazonec2"
    /\ RunUpTo(MaxLifecycleRuns, "amazonec2.Remove", {}, Ec2Remove(d, Cloud, {}))

NextLifecycle ==
    \/ LifecycleGooglePreCreateCheck
    \/ LifecycleGoogleCreate
    \/ LifecycleGoogleGetIP
    \/ LifecycleGoogleStart
    \/ LifecycleGoogleStop
    \/ LifecycleGoogleRestart
    \/ LifecycleGoogleKill
    \/ LifecycleGoogleRemove
    \/ LifecycleGoogleGetState
    \/ LifecycleEc2GetState
    \/ LifecycleEc2PreCreateCheck
    \/ LifecycleEc2Create
    \/ LifecycleEc2GetIP
    \/ LifecycleEc2Start
    \/ LifecycleEc2Stop
    \/ LifecycleEc2Restart
    \/ LifecycleEc2Kill
    \/ LifecycleEc2Remove

SpecLifecycle == InitLifecycle /\ [][NextLifecycle]_vars

(***************************************************************************)
(* SetConfigFromFlags of the google driver (part_000), and specification   *)
(* SpecConfig: the options of a host are handed to its driver; an          *)
(* amazonec2 driver of another host is configured in the same process;     *)
(* the amazonec2 driver reconciles its security groups.                    *)
(***************************************************************************)
\* strconv.ParseFloat(s, 64) on the option values of the model, the value
\* in tenths.
ParseFloat(s) ==
    CASE s = "0.5" -> [tenths |-> 5, err |-> nil]
      [] s = "1" -> [tenths |-> 10, err |-> nil]
      [] s = "2" -> [tenths |-> 20, err |-> nil]
      [] OTHER -> [tenths |-> 0, err |-> "invalid syntax"]

\* SetConfigFromFlags of the google driver, for the project and the
\* google-operation-backoff-* flags; the multipliers of the model are whole
\* numbers, and the poller of the model does not randomise.
GoogleSetConfigFromFlags(drv, flags, cloud) ==
    LET drv1 == [drv EXCEPT !.Project = flags.project]
        factor == ParseFloat(flags.randomizationFactor)
        multiplier == ParseFloat(flags.multiplier)
    IN
    IF drv1.Project = ""
    THEN Outcome("no Google Cloud Project name specified (--google-project)",
                 cloud, drv1, <<>>)
    ELSE IF factor.err # nil
    THEN Outcome("error while parsing google-operation-backoff-randomization-factor value",
                 cloud, drv1, <<>>)
    ELSE IF multiplier.err # nil
    THEN Outcome("error while parsing google-operation-backoff-multipler value",
                 cloud, drv1, <<>>)
    ELSE Outcome(nil, cloud,
                 [drv1 EXCEPT !.OperationBackoffFactory =
                    <<[InitialInterval |-> flags.initialInterval,
                       Multiplier |-> multiplier.tenths \div 10,
                       MaxInterval |-> flags.maxInterval,
                       MaxElapsedTime |-> flags.maxElapsedTime]>>],
                 <<>>)

MaxConfigRuns == 3    \* handlers run in one behaviour of SpecConfig

GoogleConfigFlags ==
    {[project |-> p, randomizationFactor |-> r, multiplier |-> m,
      initialInterval |-> 1, maxInterval |-> 30, maxElapsedTime |-> e] :
       p \in {"", "project1"}, r \in {"0.5", "half"}, m \in {"2", ""}, e \in {300, 0}}

Ec2ConfigFlags ==
    {[keypairName |-> k[1], sshKeypath |-> k[2], endpoint |-> k[3],
      insecureTransport |-> k[4]] :
       k \in {<<"", "", "", FALSE>>, <<"mykey", "user_rsa", "", FALSE>>,
              <<"mykey", "", "", FALSE>>, <<"", "", "", TRUE>>,
              <<"", "", "http://localhost:4566", TRUE>>, <<"mykey", "", "", TRUE>>}}

\* The ports of the option swarm-host.
SwarmHostPorts == {"3376", "8080"}

InitConfig ==
    /\ driverName \in {"google", "amazonec2"}
    /\ hist = <<>>
    /\ NoWorkflows
    /\ IF driverName = "google"
       THEN /\ Ec2Idle
            /\ d = NewGoogleDriver
            /\ firewall = NoFirewall
            /\ instance = NoInstance /\ disk = FALSE /\ projectValid = TRUE
       ELSE /\ GoogleIdle
            /\ d \in {[Ec2Driver(<<"docker-machine">>, FALSE, <<>>, TRUE, "",
                                 "subnet-1", FALSE)
                         EXCEPT !.SwarmHost.port = p] : p \in SwarmHostPorts}
            /\ swarmPort = defaultSwarmPort
            /\ groups = [n \in GroupNames |->
                           IF n = "extra" THEN NoSecurityGroup(n)
                           ELSE SecurityGroup(n, <<IpPermission("tcp", 22, ipRange)>>)]
            /\ keyPairs = {callerKeyName}
            /\ ec2Instances = NoEc2Instance
            /\ subnets = <<Subnet("subnet-1", FALSE)>>

ConfigGoogleSetConfig ==
    /\ driverName = "google"
    /\ \E flags \in GoogleConfigFlags :
          RunWith(MaxConfigRuns, "google.SetConfigFromFlags", {}, flags,
                  GoogleSetConfigFromFlags(d, flags, Cloud))

ConfigEc2SetConfig ==
    /\ driverName = "amazonec2"
    /\ \E flags \in Ec2ConfigFlags, fails \in FailSets({"Credentials.Get", "DescribeSubnets"}) :
          RunWith(MaxConfigRuns, "amazonec2.SetConfigFromFlags", fails, flags,
                  Ec2SetConfigFromFlags(d, flags, Cloud, fails))

\* SetConfigFromFlags of the amazonec2 driver object of another host, in the
\* same process: of what it assigns, the package variable is what this
\* host's driver can see.
ConfigOtherEc2SetConfig ==
    /\ driverName = "amazonec2"
    /\ Len(hist) < MaxConfigRuns
    /\ \E p \in SwarmHostPorts, flags \in {f \in Ec2ConfigFlags : f.keypairName = ""} :
         \E out \in {Ec2SetConfigFromFlags(
                        [Ec2Driver(<<"docker-machine">>, FALSE, <<>>, TRUE, "",
                                   "subnet-1", FALSE)
                           EXCEPT !.MachineName = "host2", !.SwarmHost.port = p],
                        flags, Cloud, {})} :
           /\ hist' = Append(hist, [op |-> "host2: amazonec2.SetConfigFromFlags",
                                    fails |-> {}, input |-> flags, err |-> out.err,
                                    calls |-> out.calls, cloud |-> Cloud, d |-> d,
                                    after |-> out.cloud, dAfter |-> d, result |-> nil])
           /\ swarmPort' = IF "swarmPort" \in DOMAIN out THEN out.swarmPort ELSE swarmPort
    /\ UNCHANGED <<driverName, d, googleBackend, ec2Backend, pc, fetched, poll>>

ConfigEc2ConfigureSecurityGroups ==
    /\ driverName = "amazonec2"
    /\ \E fails \in FailSets({"AuthorizeSecurityGroupIngress"}) :
          RunUpTo(MaxConfigRuns, "amazonec2.configureSecurityGroups", fails,
                  configureSecurityGroups(d, securityGroupNames(d), Cloud, fails))

NextConfig ==
    \/ ConfigGoogleSetConfig
    \/ ConfigEc2SetConfig
    \/ ConfigOtherEc2SetConfig
    \/ ConfigEc2ConfigureSecurityGroups

SpecConfig == InitConfig /\ [][NextConfig]_vars

(***************************************************************************)
(* Specification SpecTags: Create and Remove of an amazonec2 driver, spot  *)
(* request or not, with tag lists of several lengths.                      *)
(***************************************************************************)
MaxTagRuns == 2     \* handlers run in one behaviour of SpecTags
MaxTagWords == 42   \* longest list of words in d.Tags

\* The first n words of the option amazonec2-tags.
TagWords(n) == [k \in 1..n |-> "w" \o ToString(k)]

TagWordCounts == {0, 1, 4, 17, 18, 20, 40, MaxTagWords}

InitTags ==
    /\ driverName = "amazonec2"
    /\ hist = <<>>
    /\ NoWorkflows
    /\ GoogleIdle
    /\ d \in {[Ec2Driver(<<"docker-machine">>, FALSE, <<>>, FALSE, "", "subnet-1", spot)
                 EXCEPT !.Tags = TagWords(n)] :
                spot \in BOOLEAN, n \in TagWordCounts}
    /\ swarmPort = defaultSwarmPort
    /\ groups = [n \in GroupNames |->
                   IF n = "extra" THEN NoSecurityGroup(n)
                   ELSE SecurityGroup(n, <<IpPermission("tcp", 22, ipRange),
                                           IpPermission("tcp", 2376, ipRange)>>)]
    /\ keyPairs = {}
    /\ ec2Instances = NoEc2Instance
    /\ subnets = <<Subnet("subnet-1", FALSE)>>

TagsEc2Create ==
    /\ driverName = "amazonec2"
    /\ \E fails \in FailSets({"CreateTags", "RunInstances", "DescribeInstances"}) :
          RunUpTo(MaxTagRuns, "amazonec2.Create", fails, Ec2Create(d, Cloud, fails))

TagsEc2Remove ==
    /\ driverName = "amazonec2"
    /\ \E fails \in FailSets({"TerminateInstances"}) :
          RunUpTo(MaxTagRuns, "amazonec2.Remove", fails, Ec2Remove(d, Cloud, fails))

NextTags == TagsEc2Create \/ TagsEc2Remove

SpecTags == InitTags /\ [][NextTags]_vars

(***************************************************************************)
(* Specification SpecWaits: Create, Remove and the reconciliation of the   *)
(* security groups of an amazonec2 driver, while the reads of the bounded  *)
(* waits are answered late: with an error or an empty answer first, or     *)
(* with an error every time.                                               *)
(***************************************************************************)
MaxWaitRuns == 2    \* handlers run in one behaviour of SpecWaits

\* The late answers to the reads by group id in one handler: any of the
\* single late answers, or a read that never shows the group.
GroupWaitFailSets ==
    SUBSET {"DescribeSecurityGroups.GroupIds.transient",
            "DescribeSecurityGroups.GroupIds.empty"}
    \cup {{"DescribeSecurityGroups.GroupIds"}}

\* The late answers of one Create: those to the reads by group id, those
\* to the reads of the instance, and both.
WaitFailSets ==
    GroupWaitFailSets
    \cup SUBSET {"DescribeInstances.transient", "DescribeInstances.empty"}
    \cup {{"DescribeInstances"}, {"waitForInstance"},
          {"waitForInstance", "DescribeInstances.transient"},
          {"DescribeSecurityGroups.GroupIds.transient", "DescribeInstances"},
          {"DescribeSecurityGroups.GroupIds.transient",
           "DescribeSecurityGroups.GroupIds.empty", "DescribeInstances.transient"}}

InitWaits ==
    /\ driverName = "amazonec2"
    /\ hist = <<>>
    /\ NoWorkflows
    /\ GoogleIdle
    /\ d \in {Ec2Driver(names, FALSE, <<>>, FALSE, "", "subnet-1", FALSE) :
                names \in {<<"docker-machine">>, <<"docker-machine", "extra">>}}
    /\ swarmPort = defaultSwarmPort
    /\ groups \in {[n \in GroupNames |->
                       IF n = "extra" THEN NoSecurityGroup(n) ELSE g] :
                     g \in {NoSecurityGroup("docker-machine"),
                            SecurityGroup("docker-machine",
                               <<IpPermission("tcp", 22, ipRange),
                                 IpPermission("tcp", 2376, ipRange)>>)}}
    /\ keyPairs = {}
    /\ ec2Instances = NoEc2Instance
    /\ subnets = <<Subnet("subnet-1", FALSE)>>

WaitsEc2Create ==
    /\ driverName = "amazonec2"
    /\ \E fails \in WaitFailSets :
          RunUpTo(MaxWaitRuns, "amazonec2.Create", fails, Ec2Create(d, Cloud, fails))

WaitsEc2ConfigureSecurityGroups ==
    /\ driverName = "amazonec2"
    /\ \E fails \in GroupWaitFailSets :
          RunUpTo(MaxWaitRuns, "configureSecurityGroups", fails,
                  configureSecurityGroups(d, securityGroupNames(d), Cloud, fails))

WaitsEc2Remove ==
    /\ driverName = "amazonec2"
    /\ RunUpTo(MaxWaitRuns, "amazonec2.Remove", {}, Ec2Remove(d, Cloud, {}))

NextWaits == WaitsEc2Create \/ WaitsEc2ConfigureSecurityGroups \/ WaitsEc2Remove

SpecWaits == InitWaits /\ [][NextWaits]_vars

(***************************************************************************)
(* Specification SpecRegion: SetConfigFromFlags of a new amazonec2 driver  *)
(* with every combination of region, image and endpoint options, followed  *)
(* by PreCreateCheck.                                                      *)
(***************************************************************************)
MaxRegionRuns == 2    \* handlers run in one behaviour of SpecRegion

\* The options: a region of the table, the table's entry for a custom
\* endpoint, a region the table does not hold, no region.
RegionFlags ==
    {[keypairName |-> "", sshKeypath |-> "", endpoint |-> e,
      insecureTransport |-> t, region |-> r, ami |-> a] :
       e \in {"", "http://localhost:4566"}, t \in BOOLEAN,
       r \in {"us-east-1", "eu-west-1", "custom-endpoint", "mars-1", ""},
       a \in {"", "ami-1"}}

InitRegion ==
    /\ driverName = "amazonec2"
    /\ hist = <<>>
    /\ NoWorkflows
    /\ GoogleIdle
    /\ d = [NewEc2Driver EXCEPT !.VpcId = "vpc-1", !.SubnetId = "subnet-1"]
    /\ swarmPort = defaultSwarmPort
    /\ groups = [n \in GroupNames |-> NoSecurityGroup(n)]
    /\ keyPairs = {}
    /\ ec2Instances = NoEc2Instance
    /\ subnets = <<Subnet("subnet-1", FALSE)>>

RegionEc2SetConfig ==
    /\ driverName = "amazonec2"
    /\ \E flags \in RegionFlags, fails \in FailSets({"DescribeSubnets"}) :
          RunWith(MaxRegionRuns, "amazonec2.SetConfigFromFlags", fails, flags,
                  Ec2SetConfigFromFlags(d, flags, Cloud, fails))

RegionEc2PreCreateCheck ==
    /\ driverName = "amazonec2"
    /\ RunUpTo(MaxRegionRuns, "amazonec2.PreCreateCheck", {},
               Ec2PreCreateCheck(d, Cloud, {}))

NextRegion == RegionEc2SetConfig \/ RegionEc2PreCreateCheck

SpecRegion == InitRegion /\ [][NextRegion]_vars

(***************************************************************************)
(* The stored host: the Driver struct written as JSON by the host store    *)
(* and read back into a new Driver in a later session.  encoding/json      *)
(* writes the exported fields of the struct, the embedded BaseDriver and   *)
(* the backoffFactory behind the pointer included, and nothing else: the   *)
(* unexported clientFactory, awsCredentialsFactory and keyPath are set by  *)
(* NewDriver, the package variable swarmPort belongs to the process.       *)
(***************************************************************************)
\* The fields of the Driver structs that are exported.
ExportedFields ==
    {"MachineName", "IPAddress", "SSHPort", "SSHKeyPath", "SwarmMaster", "SwarmHost",
     "Project", "Network", "Tags", "UseExisting", "OpenPorts", "SkipFirewall",
     "UseInternalIP", "OperationBackoffFactory",
     "InstanceId", "KeyName", "ExistingKey", "SSHPrivateKeyPath",
     "SecurityGroupId", "SecurityGroupIds", "SecurityGroupName", "SecurityGroupNames",
     "SecurityGroupReadOnly", "VpcId", "SubnetId", "RequestSpotInstance",
     "PrivateIPOnly", "UsePrivateIP", "UserDataFile", "Endpoint", "DisableSSL",
     "Region", "AMI"}

\* Mutant of Marshal: the backoff factory and the key-pair provenance flag
\* are left out of the stored host.
Marshal_withoutFactoryAndFlag(drv) ==
    {<<f, drv[f]>> : f \in (DOMAIN drv \cap ExportedFields)
                            \ {"OperationBackoffFactory", "ExistingKey"}}

\* json.Marshal of a Driver: one member per exported field.
Marshal(drv) == {<<f, drv[f]>> : f \in DOMAIN drv \cap ExportedFields}

\* json.Unmarshal into the Driver NewDriver made: the fields the document
\* names are overwritten, the others keep the value NewDriver gave them.
Unmarshal(data, fresh) ==
    [f \in DOMAIN fresh |->
       IF \E m \in data : m[1] = f
       THEN (CHOOSE m \in data : m[1] = f)[2]
       ELSE fresh[f]]

\* The driver a later session works with.
Rehydrate(drv) ==
    Unmarshal(Marshal(drv), IF driverName = "google" THEN NewGoogleDriver ELSE NewEc2Driver)

(***************************************************************************)
(* Specification SpecStored: a session creates the host, and a later       *)
(* session asks the driver read back from the store for its state, or      *)
(* removes the host through it.                                            *)
(***************************************************************************)
MaxStoredRuns == 3    \* handlers run in one behaviour of SpecStored

InitStored ==
    /\ driverName \in {"google", "amazonec2"}
    /\ hist = <<>>
    /\ NoWorkflows
    /\ IF driverName = "google"
       THEN /\ Ec2Idle
            /\ d \in {[GoogleDriver(FALSE, <<>>, TRUE, FALSE)
                         EXCEPT !.OperationBackoffFactory = f] : f \in BackoffFactories}
            /\ firewall = NoFirewall
            /\ instance \in {NoInstance}
                 \cup {Instance(st, <<>>, <<>>, "203.0.113.10") : st \in GoogleStatuses}
            /\ disk \in BOOLEAN
            /\ projectValid = TRUE
       ELSE /\ GoogleIdle
            /\ d \in {Ec2Driver(<<"docker-machine">>, FALSE, <<>>, FALSE, keyName,
                                "subnet-1", FALSE) : keyName \in {"", callerKeyName}}
            /\ swarmPort = defaultSwarmPort
            /\ groups = [n \in GroupNames |->
                           IF n = "extra" THEN NoSecurityGroup(n)
                           ELSE SecurityGroup(n, <<IpPermission("tcp", 22, ipRange),
                                                   IpPermission("tcp", 2376, ipRange)>>)]
            /\ keyPairs = {callerKeyName}
            /\ ec2Instances = NoEc2Instance
            /\ subnets = <<Subnet("subnet-1", FALSE)>>

StoredGoogleCreate ==
    /\ driverName = "google"
    /\ RunUpTo(MaxStoredRuns, "google.Create", {},
               GoogleCreate(d, Cloud, {}, <<"tcp", "udp">>))

StoredEc2Create ==
    /\ driverName = "amazonec2"
    /\ RunUpTo(MaxStoredRuns, "amazonec2.Create", {}, Ec2Create(d, Cloud, {}))

StoredEc2Stop ==
    /\ driverName = "amazonec2"
    /\ RunUpTo(MaxStoredRuns, "amazonec2.Stop", {}, Ec2Stop(d, Cloud, {}))

RehydratedGoogleGetState ==
    /\ driverName = "google"
    /\ \E fails \in FailSets({"Instances.Get", "Disks.Get"}) :
          RunUpTo(MaxStoredRuns, "rehydrated google.GetState", fails,
                  GoogleGetState(Rehydrate(d), Cloud, fails))

RehydratedGoogleRemove ==
    /\ driverName = "google"
    /\ \E fails \in FailSets({"Instances.Delete", "ZoneOperations.Wait", "Disks.Delete"}) :
          RunUpTo(MaxStoredRuns, "rehydrated google.Remove", fails,
                  GoogleRemove(Rehydrate(d), Cloud, fails, TRUE))

RehydratedEc2GetState ==
    /\ driverName = "amazonec2"
    /\ \E fails \in FailSets({"DescribeInstances"}) :
          RunUpTo(MaxStoredRuns, "rehydrated amazonec2.GetState", fails,
                  Ec2GetState(Rehydrate(d), Cloud, fails))

RehydratedEc2Remove ==
    /\ driverName = "amazonec2"
    /\ \E fails \in CleanupFailSets :
          RunUpTo(MaxStoredRuns, "rehydrated amazonec2.Remove", fails,
                  Ec2Remove(Rehydrate(d), Cloud, fails))

NextStored ==
    \/ StoredGoogleCreate
    \/ StoredEc2Create
    \/ StoredEc2Stop
    \/ RehydratedGoogleGetState
    \/ RehydratedGoogleRemove
    \/ RehydratedEc2GetState
    \/ RehydratedEc2Remove

SpecStored == InitStored /\ [][NextStored]_vars

(***************************************************************************)
(* Vocabulary of the properties.                                           *)
(***************************************************************************)
ReconcileOps == {"openFirewallPorts", "configureSecurityGroups"}

\* The backend calls that change the backend.
MutationApis ==
    {"Firewalls.Insert", "Firewalls.Update", "CreateSecurityGroup",
     "AuthorizeSecurityGroupIngress", "ImportKeyPair", "DeleteKeyPair",
     "RunInstances", "CreateTags", "TerminateInstances",
     "Instances.Insert", "Instances.Delete", "Instances.SetTags",
     "Instances.SetMetadata", "Disks.Delete"}

CallsOf(h, apis) == SelectSeq(h.calls, LAMBDA c : c.api \in apis)

IsPrefix(s, t) == Len(s) <= Len(t) /\ SubSeq(t, 1, Len(s)) = s

\* The (protocol, port, source range) rules of a firewall rule object.
FirewallRules(fw) ==
    IF ~fw.exists THEN {}
    ELSE {<<k[2], k[1], src>> : k \in openedPorts(fw), src \in fw.SourceRanges}

\* The (protocol, port, source range) rules of a security group.
GroupRules(g) ==
    IF ~g.exists THEN {}
    ELSE {<<g.IpPermissions[i].IpProtocol, g.IpPermissions[i].FromPort,
            g.IpPermissions[i].CidrIp>> : i \in DOMAIN g.IpPermissions}

\* Read-only / skip mode of the driver object of a run.
ReadOnlyMode(h) ==
    IF h.op = "openFirewallPorts" THEN h.d.SkipFirewall
    ELSE h.d.SecurityGroupReadOnly

\* The desired rules of the google driver: (protocol, port, source range).
GoogleDesired(drv) ==
    {<<"tcp", googleDockerPort, ipRange>>}
    \cup (IF drv.SwarmMaster
          THEN {<<"tcp", SwarmHostPort(drv.SwarmHost), ipRange>>} ELSE {})
    \cup {<<SplitPortProto(drv.OpenPorts[i])[2], SplitPortProto(drv.OpenPorts[i])[1],
            ipRange>> : i \in DOMAIN drv.OpenPorts}

\* The desired rules of the amazonec2 driver, ports as numbers.
Ec2Desired(drv) ==
    {<<"tcp", dockerPort, ipRange>>}
    \cup (IF drv.SwarmMaster
          THEN {<<"tcp", ParseInt(SwarmHostPort(drv.SwarmHost)).n, ipRange>>}
          ELSE {})
    \cup {<<SplitPortProto(drv.OpenPorts[i])[2],
            ParseInt(SplitPortProto(drv.OpenPorts[i])[1]).n, ipRange>> :
            i \in DOMAIN drv.OpenPorts}

(***************************************************************************)
(* C1.  Security reconciliation never shrinks the backend rule set: after  *)
(* openFirewallPorts (google) or configureSecurityGroups (amazonec2) has   *)
(* returned, with or without an error, every rule that was there before is *)
(* still there and unchanged (the firewall rule object keeps its source    *)
(* ranges, target tags and network; the entries of Allowed and of          *)
(* IpPermissions that existed are a prefix of the new list), and every     *)
(* mutation call it issued is one that adds: an insert, an update whose    *)
(* rule extends the fetched one, a group creation or an authorisation.     *)
(***************************************************************************)
C1_ReconcileNeverShrinks ==
    \A i \in DOMAIN hist :
      LET h == hist[i] IN
      h.op \in ReconcileOps =>
        /\ FirewallRules(h.cloud.firewall) \subseteq FirewallRules(h.after.firewall)
        /\ h.cloud.firewall.exists =>
             /\ h.after.firewall.exists
             /\ h.after.firewall.SourceRanges = h.cloud.firewall.SourceRanges
             /\ h.after.firewall.TargetTags = h.cloud.firewall.TargetTags
             /\ h.after.firewall.Network = h.cloud.firewall.Network
             /\ IsPrefix(h.cloud.firewall.Allowed, h.after.firewall.Allowed)
        /\ \A n \in GroupNames :
             /\ GroupRules(h.cloud.groups[n]) \subseteq GroupRules(h.after.groups[n])
             /\ h.cloud.groups[n].exists =>
                  /\ h.after.groups[n].exists
                  /\ IsPrefix(h.cloud.groups[n].IpPermissions,
                              h.after.groups[n].IpPermissions)
        /\ \A k \in DOMAIN h.calls :
             h.calls[k].api \in MutationApis =>
               /\ h.calls[k].api \in {"Firewalls.Insert", "Firewalls.Update",
                                      "CreateSecurityGroup",
                                      "AuthorizeSecurityGroupIngress"}
               /\ h.calls[k].api = "Firewalls.Update" =>
                    IsPrefix(h.cloud.firewall.Allowed, h.calls[k].arg.Allowed)

\* C1 witness: a reconciliation has rewritten a firewall rule object that
\* held rules before, and returned without error.
C1_Witness ==
    \E i \in DOMAIN hist :
      /\ hist[i].op = "openFirewallPorts"
      /\ hist[i].err = nil
      /\ hist[i].cloud.firewall.Allowed # <<>>
      /\ Len(CallsOf(hist[i], {"Firewalls.Update"})) = 1
      /\ hist[i].after.firewall # hist[i].cloud.firewall

(***************************************************************************)
(* C2.  After a successful reconciliation that is not in read-only / skip  *)
(* mode the backend holds every desired rule (protocol, port, source range *)
(* 0.0.0.0/0): 2376/tcp, the swarm port of a swarm master and every open   *)
(* port of the configuration; for amazonec2 in every configured group.     *)
(* The code compares protocol and port only, so a rule for the same port   *)
(* with another source range makes it skip the desired rule.               *)
(***************************************************************************)
C2_DesiredRulesPresent ==
    \A i \in DOMAIN hist :
      LET h == hist[i] IN
      (h.op \in ReconcileOps /\ h.err = nil /\ ~ReadOnlyMode(h)) =>
        IF h.op = "openFirewallPorts"
        THEN GoogleDesired(h.d) \subseteq FirewallRules(h.after.firewall)
        ELSE \A k \in DOMAIN securityGroupNames(h.d) :
               Ec2Desired(h.d) \subseteq
                 GroupRules(h.after.groups[securityGroupNames(h.d)[k]])

(***************************************************************************)
(* C3.  Reconciliation is idempotent: a run that finds no desired rule     *)
(* missing issues no mutation call, and a run that follows a successful    *)
(* run with the same configuration issues no mutation call.  The           *)
(* amazonec2 driver looks an open port up by its spelling ("08080") in a   *)
(* table keyed by the printed number ("8080"), so it authorises such a     *)
(* port again on every run.                                                *)
(***************************************************************************)
C3_ReconcileIdempotent ==
    /\ \A i \in DOMAIN hist :
         LET h == hist[i] IN
         /\ (h.op = "openFirewallPorts" /\ ~h.d.SkipFirewall /\ h.err = nil
             /\ GoogleDesired(h.d) \subseteq
                  {<<r[1], r[2], ipRange>> : r \in FirewallRules(h.cloud.firewall)})
            => CallsOf(h, MutationApis) = <<>>
         /\ (h.op = "configureSecurityGroups" /\ ~h.d.SecurityGroupReadOnly
             /\ h.err = nil
             /\ \A k \in DOMAIN securityGroupNames(h.d) :
                  LET g == h.cloud.groups[securityGroupNames(h.d)[k]] IN
                  /\ g.exists
                  /\ Ec2Desired(h.d) \cup {<<"tcp", h.d.SSHPort, ipRange>>}
                       \subseteq {<<r[1], r[2], ipRange>> : r \in GroupRules(g)})
            => CallsOf(h, MutationApis) = <<>>
    /\ \A i \in DOMAIN hist :
         (i > 1 /\ hist[i].op \in ReconcileOps /\ hist[i - 1].op = hist[i].op
          /\ hist[i - 1].err = nil)
         => CallsOf(hist[i], MutationApis) = <<>>

(***************************************************************************)
(* C4.  With no rule at all in the backend (google: no firewall rule       *)
(* object "docker-machines"; amazonec2: the group has no permissions), the *)
(* open port 8080/tcp configured and no backend failure, the reconciler    *)
(* issues exactly one rule-creation call, which adds 8080/tcp, and         *)
(* succeeds.  The google driver takes the lookup's 404 for a failure and   *)
(* returns "requesting firewall rule" without creating anything.           *)
(***************************************************************************)
C4_CreatesRuleWhenNoneExists ==
    \A i \in DOMAIN hist :
      LET h == hist[i]
          creations == CallsOf(h, {"Firewalls.Insert", "Firewalls.Update",
                                   "AuthorizeSecurityGroupIngress"})
      IN
      (/\ h.op \in ReconcileOps
       /\ h.fails = {}
       /\ ~ReadOnlyMode(h)
       /\ h.d.OpenPorts = <<PortProto("8080", "tcp")>>
       /\ IF h.op = "openFirewallPorts"
          THEN ~h.cloud.firewall.exists
          ELSE /\ securityGroupNames(h.d) = <<"docker-machine">>
               /\ h.cloud.groups["docker-machine"] =
                    SecurityGroup("docker-machine", <<>>))
      => /\ h.err = nil
         /\ Len(creations) = 1
         /\ IF h.op = "openFirewallPorts"
            THEN /\ creations[1].api = "Firewalls.Insert"
                 /\ <<"8080", "tcp">> \in openedPorts(creations[1].arg)
                 /\ <<"tcp", "8080", ipRange>> \in FirewallRules(h.after.firewall)
            ELSE /\ IpPermission("tcp", 8080, ipRange) \in
                      SeqToSet(creations[1].arg.IpPermissions)
                 /\ <<"tcp", 8080, ipRange>> \in
                      GroupRules(h.after.groups["docker-machine"])

(***************************************************************************)
(* C5 as stated: in read-only mode (amazonec2 SecurityGroupReadOnly,       *)
(* google SkipFirewall) the reconciler issues no mutation call at all,     *)
(* also when a configured security group does not exist.                   *)
(***************************************************************************)
C5_ReadOnlyNoMutation ==
    \A i \in DOMAIN hist :
      (hist[i].op \in ReconcileOps /\ ReadOnlyMode(hist[i]))
      => CallsOf(hist[i], MutationApis) = <<>>

(***************************************************************************)
(* C5 amended: with SkipFirewall the google reconciler issues no backend   *)
(* call at all; with SecurityGroupReadOnly the amazonec2 reconciler never  *)
(* authorises a permission and leaves the permissions of every existing    *)
(* group as they are, and the only mutation call it issues is the creation *)
(* of a configured security group that did not exist.                      *)
(***************************************************************************)
C5_ReadOnlyAddsNoRules ==
    \A i \in DOMAIN hist :
      LET h == hist[i] IN
      (h.op \in ReconcileOps /\ ReadOnlyMode(h)) =>
        /\ h.op = "openFirewallPorts" => (h.calls = <<>> /\ h.after = h.cloud)
        /\ CallsOf(h, {"AuthorizeSecurityGroupIngress"}) = <<>>
        /\ \A k \in DOMAIN h.calls :
             h.calls[k].api \in MutationApis =>
               /\ h.calls[k].api = "CreateSecurityGroup"
               /\ h.calls[k].arg \in SeqToSet(securityGroupNames(h.d))
               /\ ~h.cloud.groups[h.calls[k].arg].exists
        /\ \A n \in GroupNames :
             GroupRules(h.after.groups[n]) = GroupRules(h.cloud.groups[n])

\* C5 witness: a read-only run on an existing group that lacks the desired
\* permissions has returned without error.
C5_Witness ==
    \E i \in DOMAIN hist :
      /\ hist[i].op = "configureSecurityGroups"
      /\ hist[i].d.SecurityGroupReadOnly
      /\ hist[i].err = nil
      /\ hist[i].cloud.groups["docker-machine"] = SecurityGroup("docker-machine", <<>>)

(***************************************************************************)
(* C6.  When two workflows reconcile the shared firewall rule object       *)
(* concurrently, then in every interleaving, once both have returned       *)
(* success, the rule holds the desired ports of both workflows and every   *)
(* port it held before.  Each workflow writes back the rule it fetched,    *)
(* extended by its own ports, so the later write drops what the other      *)
(* workflow added in between.                                              *)
(***************************************************************************)
C6_ConcurrentReconcileKeepsAll ==
    (driverName = "google" /\ \A w \in Workflows : pc[w] = "ok") =>
      /\ openedPorts(hist[1].cloud.firewall) \subseteq openedPorts(firewall)
      /\ \A w \in Workflows :
           \A i \in DOMAIN portsUsed(newComputeUtil(d[w])) :
             SplitPortProto(portsUsed(newComputeUtil(d[w]))[i])
               \in openedPorts(firewall)

(***************************************************************************)
(* C7.  PreCreateCheck of the google driver returns an error exactly when  *)
(* the project is invalid, or reuse is off and the instance exists, or     *)
(* reuse is on and the instance is absent.  The instance lookup's error is *)
(* dropped, so a lookup that fails reads as "absent" whatever the backend  *)
(* holds.                                                                  *)
(***************************************************************************)
C7_PreCreateCheckErrsExactlyWhen ==
    \A i \in DOMAIN hist :
      hist[i].op = "google.PreCreateCheck" =>
        ((hist[i].err # nil) <=>
           \/ ~hist[i].cloud.projectValid
           \/ ~hist[i].d.UseExisting /\ hist[i].cloud.instance.exists
           \/ hist[i].d.UseExisting /\ ~hist[i].cloud.instance.exists)

PreCreateCheckOps == {"google.PreCreateCheck", "amazonec2.PreCreateCheck"}

KeyPairProvisioned(h) ==
    IF h.op = "google.Create" THEN "GenerateSSHKey" \notin h.fails
    ELSE /\ checkPrereqs(h.d, h.cloud, h.fails).err = nil
         /\ createKeyPair(checkPrereqs(h.d, h.cloud, h.fails).d, h.cloud,
                          h.fails).err = nil

(***************************************************************************)
(* C10.  When a step of Create after key-pair provisioning fails, Create   *)
(* invokes Remove before it returns, in every driver.  Create of the       *)
(* google driver returns the error of the failed step and invokes nothing. *)
(***************************************************************************)
C10_FailedCreateInvokesRemove ==
    \A i \in DOMAIN hist :
      (/\ hist[i].op \in {"google.Create", "amazonec2.Create"}
       /\ hist[i].err # nil
       /\ KeyPairProvisioned(hist[i])) =>
        RemoveInvoked \in SeqToSet(hist[i].calls)

\* The runs of Create of the amazonec2 driver whose innerCreate failed, so
\* that the compensating Remove ran.
CreateRanCleanup(h) ==
    /\ h.op = "amazonec2.Create"
    /\ RemoveInvoked \in SeqToSet(h.calls)

\* The outcome of innerCreate in the run h of Create.
InnerCreateOf(h) ==
    innerCreate(checkPrereqs(h.d, h.cloud, h.fails).d, h.cloud, h.fails)

\* The errors the compensating Remove of the run h collected.
CleanupErrsOf(h) ==
    removeErrs(InnerCreateOf(h).d, InnerCreateOf(h).cloud, h.fails)

(***************************************************************************)
(* C11.  When a creation step fails and the compensating Remove runs,      *)
(* Create returns the error of the creation step, whether Remove collected *)
(* no error, one error or an error for every teardown step.                *)
(***************************************************************************)
C11_CreateReturnsCreationError ==
    \A i \in DOMAIN hist :
      CreateRanCleanup(hist[i]) =>
        /\ hist[i].err = InnerCreateOf(hist[i]).err
        /\ hist[i].err \notin {nil, "MultiError"}

\* A Create whose instance launch was followed by a failing step and whose
\* Remove failed in both of its teardown steps.
C11_Witness ==
    \E i \in DOMAIN hist :
      /\ CreateRanCleanup(hist[i])
      /\ Len(CleanupErrsOf(hist[i])) = 2

\* The runs of Create of the amazonec2 driver whose checkPrereqs failed.
PrereqsFailed(h) ==
    /\ h.op = "amazonec2.Create"
    /\ checkPrereqs(h.d, h.cloud, h.fails).err # nil

(***************************************************************************)
(* C12.  When checkPrereqs fails inside Create of the amazonec2 driver     *)
(* (the key pair exists although it should not, or does not although it    *)
(* should; no subnet in the zone and VPC), Create returns that error and   *)
(* has changed nothing: no ImportKeyPair, no CreateSecurityGroup or        *)
(* AuthorizeSecurityGroupIngress, no RunInstances, no Remove and no        *)
(* TerminateInstances or DeleteKeyPair; backend and Config are as before.  *)
(***************************************************************************)
C12_PrereqFailureBeforeMutation ==
    \A i \in DOMAIN hist :
      PrereqsFailed(hist[i]) =>
        /\ hist[i].err = checkPrereqs(hist[i].d, hist[i].cloud, hist[i].fails).err
        /\ CallsOf(hist[i], MutationApis) = <<>>
        /\ RemoveInvoked \notin SeqToSet(hist[i].calls)
        /\ \A k \in DOMAIN hist[i].calls :
             hist[i].calls[k].api \in {"DescribeKeyPairs", "DescribeSubnets"}
        /\ hist[i].after = hist[i].cloud
        /\ hist[i].dAfter = hist[i].d

\* One Create stopped by a key pair that already exists and another one
\* stopped by the missing subnet.
C12_Witness ==
    /\ \E i \in DOMAIN hist :
         /\ PrereqsFailed(hist[i])
         /\ hist[i].err \in {"There is already a keypair with the name",
                             "There is no keypair with the name"}
    /\ \E i \in DOMAIN hist :
         /\ PrereqsFailed(hist[i])
         /\ hist[i].err = "unable to find a subnet"

\* The names of the calls of the run h that are in apis, in order.
ApisOf(h, apis) ==
    [k \in DOMAIN CallsOf(h, apis) |-> CallsOf(h, apis)[k].api]

(***************************************************************************)
(* C13.  Remove attempts the teardown of every sub-resource, in the order  *)
(* instance, volume, key pair the driver created, also after a teardown    *)
(* that failed with an error other than not-found: the google Remove       *)
(* issues Instances.Delete and then looks the disk up to delete it; the    *)
(* amazonec2 Remove issues TerminateInstances for a launched instance and  *)
(* then DeleteKeyPair for a key pair of its own.                           *)
(***************************************************************************)
C13_RemoveAttemptsEverySubResource ==
    \A i \in DOMAIN hist :
      /\ hist[i].op = "google.Remove" =>
           ApisOf(hist[i], {"Instances.Delete", "Disks.Get"})
             = <<"Instances.Delete", "Disks.Get">>
      /\ hist[i].op = "amazonec2.Remove" =>
           ApisOf(hist[i], {"TerminateInstances", "DeleteKeyPair"})
             = (IF hist[i].d.InstanceId # "" THEN <<"TerminateInstances">> ELSE <<>>)
               \o (IF ~hist[i].d.ExistingKey /\ hist[i].d.KeyName # ""
                   THEN <<"DeleteKeyPair">> ELSE <<>>)

\* A teardown step of the run h of Remove failed with an error other than
\* not-found: a call it issued is one the backend answers with an error.
GenuineFailure(h) == \E k \in DOMAIN h.calls : h.calls[k].api \in h.fails

(***************************************************************************)
(* C14.  Remove returns an error exactly when a teardown step failed with  *)
(* an error other than not-found, and the error of the amazonec2 Remove    *)
(* holds the error of every step that failed.                              *)
(***************************************************************************)
C14_RemoveErrsExactlyOnFailure ==
    \A i \in DOMAIN hist :
      hist[i].op \in {"google.Remove", "amazonec2.Remove"} =>
        /\ hist[i].err # nil <=> GenuineFailure(hist[i])
        /\ hist[i].op = "amazonec2.Remove" =>
             Len(removeErrs(hist[i].d, hist[i].cloud, hist[i].fails))
               = Cardinality({k \in DOMAIN hist[i].calls :
                                hist[i].calls[k].api \in hist[i].fails})

(***************************************************************************)
(* C15.  Remove is idempotent with respect to absent resources: a Remove   *)
(* none of whose calls the backend answers with an error other than        *)
(* not-found returns no error, whether the instance, the disk or the key   *)
(* pair is there or not (a second Remove after a successful one; a         *)
(* not-found answer to the delete call), and a not-found answer for the    *)
(* instance does not keep the google Remove from going on to the disk.     *)
(***************************************************************************)
C15_RemoveIdempotentOnAbsent ==
    \A i \in DOMAIN hist :
      hist[i].op \in {"google.Remove", "amazonec2.Remove"} =>
        /\ ~GenuineFailure(hist[i]) => hist[i].err = nil
        /\ (/\ hist[i].op = "google.Remove"
            /\ ~hist[i].cloud.instance.exists
            /\ "Instances.Delete" \notin hist[i].fails) =>
              ApisOf(hist[i], {"Instances.Delete", "Disks.Get"})
                = <<"Instances.Delete", "Disks.Get">>

\* A Remove that deleted an instance, followed by a second Remove that
\* found neither the instance nor the disk and returned no error.
C15_Witness ==
    \E i, j \in DOMAIN hist :
      /\ i < j
      /\ hist[i].op = "google.Remove" /\ hist[j].op = "google.Remove"
      /\ hist[i].cloud.instance.exists /\ hist[i].err = nil
      /\ ~hist[j].cloud.instance.exists /\ ~hist[j].cloud.disk
      /\ hist[j].err = nil

\* The run h imported the key pair name: ImportKeyPair was issued for it
\* and the backend accepted it.
ImportedKeyPair(h, name) ==
    /\ Call("ImportKeyPair", name) \in SeqToSet(h.calls)
    /\ "ImportKeyPair" \notin h.fails
    /\ name \notin h.cloud.keyPairs

(***************************************************************************)
(* C16.  Across SetConfigFromFlags, Create (successful, or failed and      *)
(* cleaned up) and Remove in any order, the amazonec2 driver issues        *)
(* DeleteKeyPair only for a key pair that an ImportKeyPair of this driver  *)
(* created, in the same or an earlier run; the key pair named with         *)
(* amazonec2-keypair-name is never deleted.                                *)
(***************************************************************************)
C16_DeletesOnlyImportedKeyPair ==
    \A i \in DOMAIN hist :
      \A k \in DOMAIN hist[i].calls :
        hist[i].calls[k].api = "DeleteKeyPair" =>
          /\ hist[i].calls[k].arg # callerKeyName
          /\ \E j \in 1..i : ImportedKeyPair(hist[j], hist[i].calls[k].arg)
          /\ callerKeyName \in hist[i].cloud.keyPairs
               => callerKeyName \in hist[i].after.keyPairs

\* The caller's key pair was configured and Remove ran (no DeleteKeyPair),
\* and a Remove of another run deleted the key pair it had imported.
C16_Witness ==
    /\ \E i \in DOMAIN hist :
         /\ hist[i].op = "amazonec2.Remove"
         /\ hist[i].d.KeyName = callerKeyName
    /\ \E i \in DOMAIN hist :
         /\ hist[i].op \in {"amazonec2.Remove", "amazonec2.Create"}
         /\ Call("DeleteKeyPair", machineName) \in SeqToSet(hist[i].calls)

\* The runs of GetState.
GetStateOps == {"google.GetState", "amazonec2.GetState"}

\* The provider status of the instance the run h of GetState looked at;
\* "" when the instance is absent.
ProviderStatus(h) ==
    IF h.op = "google.GetState"
    THEN (IF h.cloud.instance.exists THEN h.cloud.instance.Status ELSE "")
    ELSE (IF h.cloud.ec2Instances.exists THEN h.cloud.ec2Instances.State ELSE "")

(***************************************************************************)
(* C17.  GetState of the google driver, with the instance absent, returns  *)
(* None when the disk is absent too and Stopped when the disk is there;    *)
(* when it returns None without an error, neither the instance nor the     *)
(* disk exists in the backend.                                             *)
(***************************************************************************)
C17_NoneOnlyWhenBothAbsent ==
    \A i \in DOMAIN hist :
      (hist[i].op = "google.GetState" /\ hist[i].err = nil) =>
        /\ ~hist[i].cloud.instance.exists =>
             hist[i].result = IF hist[i].cloud.disk THEN "Stopped" ELSE "None"
        /\ hist[i].result = "None" =>
             ~hist[i].cloud.instance.exists /\ ~hist[i].cloud.disk

(***************************************************************************)
(* C18.  GetState with the instance present and the lookup answered maps   *)
(* the provider status: PROVISIONING, STAGING, pending to Starting;        *)
(* RUNNING, running to Running; STOPPING, stopping, shutting-down to       *)
(* Stopping; STOPPED, TERMINATED, stopped, terminated to Stopped.          *)
(***************************************************************************)
C18_RecognisedStatusTable ==
    \A i \in DOMAIN hist :
      (hist[i].op \in GetStateOps /\ hist[i].fails = {}) =>
        /\ ProviderStatus(hist[i]) \in {"PROVISIONING", "STAGING", "pending"}
             => hist[i].result = "Starting"
        /\ ProviderStatus(hist[i]) \in {"RUNNING", "running"}
             => hist[i].result = "Running"
        /\ ProviderStatus(hist[i]) \in {"STOPPING", "stopping", "shutting-down"}
             => hist[i].result = "Stopping"
        /\ ProviderStatus(hist[i]) \in {"STOPPED", "TERMINATED", "stopped", "terminated"}
             => hist[i].result = "Stopped"

\* The provider statuses the two implementations of GetState name.
RecognisedStatuses ==
    {"PROVISIONING", "STAGING", "RUNNING", "STOPPING", "STOPPED", "TERMINATED",
     "pending", "running", "stopping", "shutting-down", "stopped", "terminated"}

(***************************************************************************)
(* C19.  GetState is total: it returns one of the canonical states for     *)
(* every input, and for a present instance whose provider status it does   *)
(* not recognise it returns Error, in both drivers.                        *)
(***************************************************************************)
C19_UnrecognisedStatusIsError ==
    \A i \in DOMAIN hist :
      hist[i].op \in GetStateOps =>
        /\ hist[i].result \in States
        /\ (/\ hist[i].fails = {}
            /\ ProviderStatus(hist[i]) \notin RecognisedStatuses \cup {""})
             => hist[i].result = "Error"

\* The number of fetches of the run h of waitForOp, and its sleeps.
Fetches(h) == Len(SelectSeq(h.result.trace, LAMBDA e : e = "fetch"))
Sleeps(h) == Len(SelectSeq(h.result.trace, LAMBDA e : e = "sleep"))

(***************************************************************************)
(* C20.  waitForOp returns nil as soon as a fetch brings status DONE       *)
(* without an error, and the operation's error as soon as a fetch brings   *)
(* DONE with an error: that fetch is the last thing it does (no fetch and  *)
(* no sleep after it), and no earlier fetch had brought DONE.              *)
(***************************************************************************)
C20_PollerReturnsWhenDone ==
    \A i \in DOMAIN hist :
      (hist[i].op = "google.waitForOp" /\ hist[i].result.trace # <<>>) =>
        LET h == hist[i]
            n == Fetches(h)
        IN /\ \A k \in 1..(n - 1) :
                AnswerAt(h.result.answers, k) \notin {"DONE", "DONE_ERROR"}
           /\ AnswerAt(h.result.answers, n) = "DONE" => h.err = nil
           /\ AnswerAt(h.result.answers, n) = "DONE_ERROR" => h.err = "operation error"
           /\ h.result.trace[Len(h.result.trace)] = "fetch"
           /\ Sleeps(h) = n - 1
           /\ h.err \in {nil, "operation error"} =>
                AnswerAt(h.result.answers, n) \in {"DONE", "DONE_ERROR"}

\* A poll that slept twice, found the operation DONE with an error at the
\* third fetch and returned it, although a later fetch would have brought
\* DONE without an error.
C20_Witness ==
    \E i \in DOMAIN hist :
      /\ hist[i].op = "google.waitForOp"
      /\ hist[i].result.answers = <<"PENDING", "RUNNING", "DONE_ERROR">>
      /\ hist[i].result.trace = <<"fetch", "sleep", "fetch", "sleep", "fetch">>
      /\ hist[i].err = "operation error"

\* The runs of waitForOp.
IsPoll(h) == h.op = "google.waitForOp"

(***************************************************************************)
(* C21.  Without a backoff factory waitForOp returns the error             *)
(* "operationBackoffFactory is not defined" and has fetched nothing and    *)
(* slept never; no default backoff takes the place of the missing one.     *)
(***************************************************************************)
C21_NoBackoffFactoryFailsFast ==
    \A i \in DOMAIN hist :
      (IsPoll(hist[i]) /\ hist[i].d.OperationBackoffFactory = nilFactory) =>
        /\ hist[i].err = "operationBackoffFactory is not defined"
        /\ hist[i].result.trace = <<>>

\* waitForOp without a backoff factory on an operation that is DONE at the
\* first fetch.
C21_Witness ==
    \E i \in DOMAIN hist :
      /\ IsPoll(hist[i])
      /\ hist[i].d.OperationBackoffFactory = nilFactory
      /\ hist[i].result.answers = <<"DONE">>
      /\ hist[i].err # nil

\* The k-th interval of a backoff of the factory f, and the time slept
\* after k sleeps.
RECURSIVE SleepInterval(_, _)
SleepInterval(f, k) ==
    IF k = 1 THEN f.InitialInterval
    ELSE Min(SleepInterval(f, k - 1) * f.Multiplier, f.MaxInterval)

RECURSIVE SleptAfter(_, _)
SleptAfter(f, k) ==
    IF k = 0 THEN 0 ELSE SleptAfter(f, k - 1) + SleepInterval(f, k)

\* The budget of the factory f lasts for n sleeps: before each of them the
\* time slept so far is within MaxElapsedTime (0: no limit).
BudgetLasts(f, n) ==
    f.MaxElapsedTime = 0 \/ \A k \in 1..n : SleptAfter(f, k - 1) <= f.MaxElapsedTime

\* The answers are n times a status that is not DONE, then DONE.
PendingsThenDone(answers) ==
    /\ answers[Len(answers)] = "DONE"
    /\ \A k \in 1..(Len(answers) - 1) : answers[k] \in {"PENDING", "RUNNING"}

(***************************************************************************)
(* C22.  When the fetches bring n statuses that are not DONE and then DONE *)
(* without an error, and the backoff budget lasts for n sleeps, waitForOp  *)
(* fetches n+1 times, sleeps n times (after every fetch but the last) and  *)
(* returns nil.                                                            *)
(***************************************************************************)
C22_PendingsThenDoneCounts ==
    \A i \in DOMAIN hist :
      (/\ IsPoll(hist[i])
       /\ hist[i].d.OperationBackoffFactory # nilFactory
       /\ PendingsThenDone(hist[i].result.answers)
       /\ BudgetLasts(hist[i].d.OperationBackoffFactory[1],
                      Len(hist[i].result.answers) - 1)) =>
        LET n == Len(hist[i].result.answers) - 1
            trace == hist[i].result.trace
        IN /\ hist[i].err = nil
           /\ Fetches(hist[i]) = n + 1
           /\ Sleeps(hist[i]) = n
           /\ Len(trace) = 2 * n + 1
           /\ \A k \in DOMAIN trace :
                trace[k] = IF k % 2 = 1 THEN "fetch" ELSE "sleep"

\* Two statuses that are not DONE, then DONE, with the backoff whose budget
\* is used up by the second sleep.
C22_Witness ==
    \E i \in DOMAIN hist :
      /\ IsPoll(hist[i])
      /\ hist[i].d.OperationBackoffFactory = <<shortBackoffFactory>>
      /\ hist[i].result.answers = <<"PENDING", "RUNNING", "DONE">>
      /\ hist[i].err = nil
      /\ Sleeps(hist[i]) = 2

(***************************************************************************)
(* C23.  waitForOp always terminates: it returns in the end, also when no  *)
(* fetch ever brings DONE, and it returns nil only after a fetch that      *)
(* brought DONE without an error.                                          *)
(***************************************************************************)
C23_PollerTerminates ==
    /\ <>(poll.pc = "returned")
    /\ []((poll.pc = "returned" /\ poll.err = nil) => poll.last = "DONE")

(***************************************************************************)
(* C24.  The wait of waitForOp is cancellable: once the caller has         *)
(* signalled cancellation during a sleep or between two fetches, the next  *)
(* thing waitForOp does is to return a cancellation error; it neither      *)
(* fetches nor sleeps again.                                               *)
(***************************************************************************)
C24_CancelEndsWait ==
    [][(poll.cancelled /\ poll.pc \in {"fetch", "sleep"}) =>
         (poll'.pc = "returned" /\ poll'.err = "cancelled")]_vars

GetIPOps == {"google.GetIP", "amazonec2.GetIP"}

\* Start, Stop, Restart and Kill of either driver.
PowerOps ==
    {"google.Start", "google.Stop", "google.Restart", "google.Kill",
     "amazonec2.Start", "amazonec2.Stop", "amazonec2.Restart", "amazonec2.Kill"}

(***************************************************************************)
(* C25.  Once GetIP has returned an address, every later GetIP of the same *)
(* driver object returns the same address and issues no backend call,      *)
(* whatever Start, Stop, Restart and Kill ran in between, in both drivers. *)
(***************************************************************************)
C25_GetIPStaysCached ==
    \A i, j \in DOMAIN hist :
      (/\ i < j
       /\ hist[i].op \in GetIPOps /\ hist[j].op \in GetIPOps
       /\ hist[i].err = nil /\ hist[i].result # ""
       /\ \A k \in (i + 1)..(j - 1) : hist[k].op \in PowerOps \cup GetIPOps) =>
        /\ hist[j].result = hist[i].result
        /\ hist[j].calls = <<>>

\* The position of the first call of the run h to api; 0 when there is none.
FirstCall(h, api) ==
    IF \E k \in DOMAIN h.calls : h.calls[k].api = api
    THEN CHOOSE k \in DOMAIN h.calls :
           /\ h.calls[k].api = api
           /\ \A m \in 1..(k - 1) : h.calls[m].api # api
    ELSE 0

\* Stop, as the first half of the run h of Restart.
StopOf(h) == GoogleStop(h.d, h.cloud, h.fails)

(***************************************************************************)
(* C26.  Restart of the google driver is Stop followed by Start: when Stop *)
(* fails, Restart returns its error and issues neither Instances.Start nor *)
(* Instances.Insert; otherwise the calls of Stop, ending with the wait for *)
(* the stop operation, come before the first call of Start, and the result *)
(* is that of Start on what Stop left.                                     *)
(***************************************************************************)
C26_RestartIsStopThenStart ==
    \A i \in DOMAIN hist :
      hist[i].op = "google.Restart" =>
        LET h == hist[i]
            stopped == StopOf(h)
        IN /\ stopped.err # nil =>
                /\ h.err = stopped.err
                /\ h.calls = stopped.calls
                /\ CallsOf(h, {"Instances.Start", "Instances.Insert"}) = <<>>
           /\ stopped.err = nil =>
                /\ IsPrefix(stopped.calls, h.calls)
                /\ stopped.calls[Len(stopped.calls)]
                     = Call("ZoneOperations.Wait", "Instances.Stop")
                /\ \A k \in DOMAIN h.calls :
                     h.calls[k].api \in {"Instances.Start", "Instances.Insert"} =>
                       k > Len(stopped.calls)
                /\ \E newIP \in IpPool :
                     LET started == GoogleStart(stopped.d, stopped.cloud, h.fails, newIP)
                     IN /\ h.err = started.err
                        /\ h.after = started.cloud
                        /\ h.dAfter = started.d

\* A Restart that stopped and started the instance, and a Restart whose
\* wait for the stop operation failed.
C26_Witness ==
    /\ \E i \in DOMAIN hist :
         /\ hist[i].op = "google.Restart" /\ hist[i].err = nil
         /\ FirstCall(hist[i], "Instances.Start") > FirstCall(hist[i], "ZoneOperations.Wait")
         /\ FirstCall(hist[i], "ZoneOperations.Wait") > 0
    /\ \E i \in DOMAIN hist :
         /\ hist[i].op = "google.Restart"
         /\ hist[i].fails = {"ZoneOperations.Wait"}
         /\ hist[i].err = "operation error"

\* The live instances the backend holds that were created for this host:
\* the one the driver object names, and those it no longer names.
LiveInstances ==
    IF driverName = "google"
    THEN IF instance.exists THEN 1 ELSE 0
    ELSE ec2Instances.orphans + (IF Ec2Live(ec2Instances) THEN 1 ELSE 0)

(***************************************************************************)
(* C27.  Whatever PreCreateCheck, Create, Start, Stop, Restart, Kill and   *)
(* Remove calls were made on one driver object, the backend holds at most  *)
(* one live instance created for that host.                                *)
(***************************************************************************)
C27_AtMostOneLiveInstance == LiveInstances <= 1

\* What the live driver of the run h would have returned and done.
LiveOutcome(h) ==
    CASE h.op = "rehydrated google.GetState" -> GoogleGetState(h.d, h.cloud, h.fails)
      [] h.op = "rehydrated google.Remove" -> GoogleRemove(h.d, h.cloud, h.fails, TRUE)
      [] h.op = "rehydrated amazonec2.GetState" -> Ec2GetState(h.d, h.cloud, h.fails)
      [] h.op = "rehydrated amazonec2.Remove" -> Ec2Remove(h.d, h.cloud, h.fails)

RehydratedOps ==
    {"rehydrated google.GetState", "rehydrated google.Remove",
     "rehydrated amazonec2.GetState", "rehydrated amazonec2.Remove"}

SetConfigOps == {"google.SetConfigFromFlags", "amazonec2.SetConfigFromFlags"}

\* The errors SetConfigFromFlags returns for options it does not accept.
ConfigurationErrors ==
    {"using --amazonec2-insecure-transport also requires --amazonec2-endpoint",
     "using --amazonec2-keypair-name also requires --amazonec2-ssh-keypath",
     "no Google Cloud Project name specified (--google-project)",
     "error while parsing google-operation-backoff-randomization-factor value",
     "error while parsing google-operation-backoff-multipler value"}

\* The options of the run h are malformed or exclude each other.
Malformed(h) ==
    IF h.op = "amazonec2.SetConfigFromFlags"
    THEN \/ h.input.insecureTransport /\ h.input.endpoint = ""
         \/ h.input.keypairName # "" /\ h.input.sshKeypath = ""
    ELSE \/ h.input.project = ""
         \/ ParseFloat(h.input.randomizationFactor).err # nil
         \/ ParseFloat(h.input.multiplier).err # nil

PortsOpened(h) ==
    {r[2] : r \in GroupRules(h.after.groups["docker-machine"])
                    \ GroupRules(h.cloud.groups["docker-machine"])}

(***************************************************************************)
(* C30.  The swarm port an amazonec2 driver of a swarm master opens when   *)
(* it reconciles its security group is the port of its own swarm-host      *)
(* option, whatever driver objects of other hosts were configured in the   *)
(* process.                                                                *)
(***************************************************************************)
C30_OwnSwarmPortOpened ==
    \A i \in DOMAIN hist :
      (/\ hist[i].op = "amazonec2.configureSecurityGroups"
       /\ hist[i].err = nil
       /\ hist[i].d.SwarmMaster
       /\ \E j \in 1..(i - 1) :
            hist[j].op = "amazonec2.SetConfigFromFlags" /\ hist[j].err = nil) =>
        LET own == ParseInt(SwarmHostPort(hist[i].d.SwarmHost)).n IN
        /\ <<"tcp", own, ipRange>> \in GroupRules(hist[i].after.groups["docker-machine"])
        /\ PortsOpened(hist[i]) \subseteq {hist[i].d.SSHPort, dockerPort, own}

(***************************************************************************)
(* C40.  When a fetch of waitForOp returns an error, waitForOp returns     *)
(* that error at once: the fetch is the last entry of its trace, no fetch  *)
(* before it had returned an error, and a run that returns success or the  *)
(* timeout has seen no fetch error.                                        *)
(***************************************************************************)
C40_FetchErrorReturnedAtOnce ==
    \A i \in DOMAIN hist :
      (IsPoll(hist[i]) /\ hist[i].result.trace # <<>>) =>
        LET h == hist[i]
            n == Fetches(h)
            trace == h.result.trace
        IN /\ \A k \in 1..(n - 1) : AnswerAt(h.result.answers, k) # "FETCH_ERROR"
           /\ AnswerAt(h.result.answers, n) = "FETCH_ERROR" =>
                /\ h.err = "backendError"
                /\ trace[Len(trace)] = "fetch"
                /\ Sleeps(h) = n - 1
           /\ h.err \in {nil, "maximum backoff elapsed time exceeded"} =>
                \A k \in 1..n : AnswerAt(h.result.answers, k) # "FETCH_ERROR"

\* The second fetch returned an error, although the third would have found
\* the operation DONE.
C40_Witness ==
    \E i \in DOMAIN hist :
      /\ IsPoll(hist[i])
      /\ hist[i].result.answers = <<"PENDING", "FETCH_ERROR", "DONE">>
      /\ hist[i].result.trace = <<"fetch", "sleep", "fetch">>
      /\ hist[i].err = "backendError"

CreateOps == {"google.Create", "amazonec2.Create"}

\* The backend holds no instance for the host before the run h.
NoInstanceBefore(h) ==
    IF h.op \in {"google.PreCreateCheck", "google.Create"}
    THEN ~h.cloud.instance.exists
    ELSE ~h.cloud.ec2Instances.exists

(***************************************************************************)
(* C31.  With no instance in the backend and UseExisting off,              *)
(* PreCreateCheck succeeds; and when the Create that follows it returns    *)
(* nil, the instance exists and the GetState called next returns Running.  *)
(***************************************************************************)
C31_CreatedInstanceIsRunning ==
    \A i \in DOMAIN hist :
      /\ (/\ hist[i].op = "google.PreCreateCheck"
          /\ NoInstanceBefore(hist[i]) /\ ~hist[i].d.UseExisting) => hist[i].err = nil
      /\ (/\ hist[i].op \in CreateOps /\ hist[i].err = nil
          /\ NoInstanceBefore(hist[i])
          /\ i > 1 /\ hist[i - 1].op \in {"google.PreCreateCheck", "amazonec2.PreCreateCheck"}
          /\ hist[i - 1].err = nil
          /\ i < Len(hist) /\ hist[i + 1].op \in GetStateOps) =>
           /\ IF hist[i].op = "google.Create" THEN hist[i].after.instance.exists
              ELSE Ec2Live(hist[i].after.ec2Instances)
           /\ hist[i + 1].err = nil
           /\ hist[i + 1].result = "Running"

\* The tags of the CreateTags requests of the run h, one after the other.
RECURSIVE TagsSent(_)
TagsSent(calls) ==
    IF calls = <<>> THEN <<>> ELSE Head(calls).arg.Tags \o TagsSent(Tail(calls))

\* The run h launched the instance and none of its tagging requests failed.
TaggedRun(h) ==
    /\ h.op = "amazonec2.Create"
    /\ CallsOf(h, {"RunInstances"}) # <<>>
    /\ h.fails \cap {"RunInstances", "CreateTags"} = {}

(***************************************************************************)
(* C32.  For a spot instance the CreateTags requests of Create follow the  *)
(* RunInstances request one after the other, each carries between 1 and    *)
(* maxTagsPerCall tags, and together they carry the tags of createTags,    *)
(* each once and in order; for an instance that is no spot instance there  *)
(* is no CreateTags request and the tags are in the RunInstances request.  *)
(***************************************************************************)
C32_SpotTagsInBatches ==
    \A i \in DOMAIN hist :
      TaggedRun(hist[i]) =>
        LET h == hist[i]
            tagCalls == CallsOf(h, {"CreateTags"})
            run == FirstCall(h, "RunInstances")
        IN IF h.d.RequestSpotInstance
           THEN /\ TagsSent(tagCalls) = createTags(h.d)
                /\ tagCalls = SubSeq(h.calls, run + 1, run + Len(tagCalls))
                /\ \A k \in DOMAIN tagCalls :
                     /\ Len(tagCalls[k].arg.Tags) >= 1
                     /\ Len(tagCalls[k].arg.Tags) <= maxTagsPerCall
                /\ h.calls[run].arg.TagSpecifications = <<>>
           ELSE /\ tagCalls = <<>>
                /\ h.calls[run].arg.TagSpecifications = createTags(h.d)

\* A spot instance with 21 tags, sent in three requests of 10, 10 and 1.
C32_Witness ==
    \E i \in DOMAIN hist :
      /\ TaggedRun(hist[i]) /\ hist[i].err = nil
      /\ hist[i].d.RequestSpotInstance
      /\ Len(createTags(hist[i].d)) = 21
      /\ Len(CallsOf(hist[i], {"CreateTags"})) = 3

(***************************************************************************)
(* The bounded waits of the amazonec2 Create.                              *)
(***************************************************************************)
WaitApis == {"DescribeSecurityGroups.GroupIds", "DescribeInstances"}

\* The reads of a wait that did not show the resource, counted back from
\* the k-th call of a handler.
RECURSIVE UnansweredRun(_, _)
UnansweredRun(calls, k) ==
    IF k = 0 THEN 0
    ELSE IF calls[k].api \in WaitApis /\ ~calls[k].arg.found
    THEN 1 + UnansweredRun(calls, k - 1)
    ELSE 0

\* C33: during the waits of the amazonec2 Create (for the created security
\* group, for the address, for the running instance) a read answered with
\* an error, or with an answer that does not hold the resource, never ends
\* Create: the same read is made again next, unless it was the last of the
\* maxAttempts reads of the wait; Create returns the error of a wait only
\* when that wait made all its reads; and a Create whose only trouble are
\* reads answered late, for a host without a key pair yet, returns no
\* error and holds the address of the instance.
C33_WaitsRepeatThePoll ==
    \A i \in DOMAIN hist :
      hist[i].op = "amazonec2.Create" =>
        LET calls == hist[i].calls IN
        /\ \A k \in DOMAIN calls :
             (calls[k].api \in WaitApis /\ ~calls[k].arg.found) =>
                \/ k < Len(calls) /\ calls[k + 1].api = calls[k].api
                                  /\ calls[k + 1].arg.id = calls[k].arg.id
                \/ UnansweredRun(calls, k) = maxAttempts
        /\ hist[i].err = "Maximum number of retries (60) exceeded" =>
             \E k \in DOMAIN calls : UnansweredRun(calls, k) = maxAttempts
        /\ (/\ hist[i].fails \subseteq
                  {"DescribeSecurityGroups.GroupIds.transient",
                   "DescribeSecurityGroups.GroupIds.empty",
                   "DescribeInstances.transient", "DescribeInstances.empty"}
            /\ hist[i].d.KeyName = ""
            /\ hist[i].d.MachineName \notin hist[i].cloud.keyPairs) =>
             /\ hist[i].err = nil
             /\ hist[i].dAfter.IPAddress = hist[i].after.ec2Instances.PublicIpAddress

\* Create had to create the security group, the first read of the group
\* was answered with an error and the second with no group, the first read
\* of the instance with an error: Create made every read again and
\* returned no error.
C33_Witness ==
    \E i \in DOMAIN hist :
      /\ hist[i].op = "amazonec2.Create"
      /\ {"DescribeSecurityGroups.GroupIds.transient",
          "DescribeSecurityGroups.GroupIds.empty",
          "DescribeInstances.transient"} \subseteq hist[i].fails
      /\ hist[i].err = nil
      /\ Len(CallsOf(hist[i], {"DescribeSecurityGroups.GroupIds"})) = 3
      /\ Len(CallsOf(hist[i], {"DescribeInstances"})) = 3
      /\ hist[i].dAfter.IPAddress # ""


(***************************************************************************)
(* The security group configureSecurityGroups creates.                     *)
(***************************************************************************)
\* The positions after c, in the calls of a handler, of the reads by group
\* id that showed the group id.
SeenAfter(calls, c, id) ==
    {w \in DOMAIN calls :
        /\ w > c
        /\ calls[w].api = "DescribeSecurityGroups.GroupIds"
        /\ calls[w].arg.id = id
        /\ calls[w].arg.found}

\* C36: when configureSecurityGroups creates a security group, every
\* AuthorizeSecurityGroupIngress call it issues for that group comes after
\* a read by group id that showed the group; and when no read of the wait
\* showed the group, configureSecurityGroups returns an error and issues
\* no AuthorizeSecurityGroupIngress call after the creation.
C36_AuthoriseAfterGroupSeen ==
    \A i \in DOMAIN hist :
      hist[i].op \in {"amazonec2.Create", "configureSecurityGroups"} =>
        LET calls == hist[i].calls IN
        \A c \in DOMAIN calls :
          (/\ calls[c].api = "CreateSecurityGroup"
           /\ c < Len(calls)
           /\ calls[c + 1].api = "DescribeSecurityGroups.GroupIds") =>
             LET id == calls[c + 1].arg.id IN
             /\ \A a \in DOMAIN calls :
                  (/\ a > c
                   /\ calls[a].api = "AuthorizeSecurityGroupIngress"
                   /\ calls[a].arg.GroupId = id) =>
                     \E w \in SeenAfter(calls, c, id) : w < a
             /\ SeenAfter(calls, c, id) = {} =>
                  /\ hist[i].err = "Maximum number of retries (60) exceeded"
                  /\ \A a \in DOMAIN calls :
                        a > c => calls[a].api # "AuthorizeSecurityGroupIngress"

\* configureSecurityGroups created the group, its first read of the group
\* was answered with an error, a later read showed the group and the rules
\* of the group were authorised after that read.
C36_Witness ==
    \E i \in DOMAIN hist :
      /\ hist[i].op = "configureSecurityGroups"
      /\ "DescribeSecurityGroups.GroupIds.transient" \in hist[i].fails
      /\ hist[i].err = nil
      /\ \E c, w, a \in DOMAIN hist[i].calls :
           /\ c < w /\ w < a
           /\ hist[i].calls[c].api = "CreateSecurityGroup"
           /\ hist[i].calls[c + 1].api = "DescribeSecurityGroups.GroupIds"
           /\ ~hist[i].calls[c + 1].arg.found
           /\ hist[i].calls[a].api = "AuthorizeSecurityGroupIngress"
           /\ w \in SeenAfter(hist[i].calls, c, hist[i].calls[a].arg.GroupId)


(***************************************************************************)
(* The order of the steps of Create.                                       *)
(***************************************************************************)
\* The calls of the key pair step, of the security rule step and the
\* request that creates the instance.
KeyPairApis == {"ImportKeyPair"}

SecurityRuleApis ==
    {"DescribeSecurityGroups", "CreateSecurityGroup",
     "DescribeSecurityGroups.GroupIds", "AuthorizeSecurityGroupIngress",
     "Firewalls.Get", "Firewalls.Insert", "Firewalls.Update",
     "GlobalOperations.Wait"}

InstanceCreationApis == {"RunInstances", "Instances.Insert"}

\* The errors Create returns when the key pair step or the security rule
\* step fails without a failing call.
StepErrors ==
    {"GenerateSSHKey", "unable to create key pair", "invalid port number",
     "InvalidPermission.Duplicate", "InvalidGroup.Duplicate",
     "requesting firewall rule"}

\* The positions of the calls of h to one of the apis.
Positions(h, apis) == {k \in DOMAIN h.calls : h.calls[k].api \in apis}

\* C34: in every Create, the calls of the key pair step come before the
\* calls of the security rule step, and both before the request that
\* creates the instance; the request is sent only with a key pair name
\* set by the key pair step and, unless the firewall is skipped, after the
\* stored rules were read; and a Create in which a call of either step failed, or that
\* returns an error of either step, sends no such request.
C34_CreationAfterKeyAndRules ==
    \A i \in DOMAIN hist :
      hist[i].op \in CreateOps =>
        LET h == hist[i]
            keys == Positions(h, KeyPairApis)
            rules == Positions(h, SecurityRuleApis)
            creations == Positions(h, InstanceCreationApis)
        IN
        /\ \A k \in keys, r \in rules : k < r
        /\ \A p \in creations : \A k \in keys \cup rules : k < p
        /\ (creations # {} /\ h.op = "amazonec2.Create") =>
              /\ h.dAfter.KeyName # ""
              /\ Positions(h, {"DescribeSecurityGroups"}) # {}
        /\ (creations # {} /\ h.op = "google.Create" /\ ~h.d.SkipFirewall) =>
              Positions(h, {"Firewalls.Get"}) # {}
        /\ (\/ \E k \in keys \cup rules : h.calls[k].api \in h.fails
            \/ h.err \in StepErrors) =>
              creations = {}

\* An amazonec2 Create that imported the key pair, then created the
\* security group and authorised its rules, then sent RunInstances.
C34_Witness ==
    \E i \in DOMAIN hist :
      /\ hist[i].op = "amazonec2.Create"
      /\ hist[i].err = nil
      /\ \E k, c, a, p \in DOMAIN hist[i].calls :
           /\ k < c /\ c < a /\ a < p
           /\ hist[i].calls[k].api = "ImportKeyPair"
           /\ hist[i].calls[c].api = "CreateSecurityGroup"
           /\ hist[i].calls[a].api = "AuthorizeSecurityGroupIngress"
           /\ hist[i].calls[p].api = "RunInstances"


(***************************************************************************)
(* Start of the google driver.                                             *)
(***************************************************************************)
\* C35: a Start of the google driver that finds no instance sends one
\* Instances.Insert and no Instances.Start, and the request initialises a
\* new boot disk exactly when the backend holds no disk "<name>-disk"; a
\* Start that finds the instance sends one Instances.Start and no
\* Instances.Insert; and after a Start that returns no error d.IPAddress
\* is the address the backend holds for the instance.
C35_StartCreatesOrStarts ==
    \A i \in DOMAIN hist :
      hist[i].op = "google.Start" =>
        LET h == hist[i]
            inserts == CallsOf(h, {"Instances.Insert"})
            starts == CallsOf(h, {"Instances.Start"})
        IN
        /\ ~h.cloud.instance.exists =>
              /\ Len(inserts) = 1 /\ starts = <<>>
              /\ inserts[1].arg.newDisk = ~h.cloud.disk
        /\ h.cloud.instance.exists => Len(starts) = 1 /\ inserts = <<>>
        /\ h.err = nil => h.dAfter.IPAddress = h.after.instance.NatIP


(***************************************************************************)
(* The rules a reconciler sends as missing.                                *)
(***************************************************************************)
\* No value stands at two places of the sequence.
NoRepeat(seq) == \A j, k \in DOMAIN seq : j # k => seq[j] # seq[k]

\* C37: the rules a reconciler sends as missing hold each pair of port and
\* protocol once at most: the ports missingOpenedPorts lists for one
\* protocol are distinct, whatever the stored rule and the open ports of
\* the google driver, and so are the pairs of port and protocol of the
\* permissions of one AuthorizeSecurityGroupIngress call of the amazonec2
\* driver.
C37_MissingRulesDistinct ==
    \A i \in DOMAIN hist :
      /\ hist[i].op = "openFirewallPorts" =>
           LET missing == missingOpenedPorts(hist[i].cloud.firewall,
                                             portsUsed(newComputeUtil(hist[i].d)))
           IN \A proto \in DOMAIN missing : NoRepeat(missing[proto])
      /\ hist[i].op = "configureSecurityGroups" =>
           \A k \in DOMAIN hist[i].calls :
             hist[i].calls[k].api = "AuthorizeSecurityGroupIngress" =>
               NoRepeat([n \in DOMAIN hist[i].calls[k].arg.IpPermissions |->
                           <<hist[i].calls[k].arg.IpPermissions[n].FromPort,
                             hist[i].calls[k].arg.IpPermissions[n].IpProtocol>>])


(***************************************************************************)
(* The key pair lookup of checkPrereqs.                                    *)
(***************************************************************************)
\* The key pair name checkPrereqs looks up for the driver of h.
LookedUpKey(h) == IF h.d.KeyName = "" THEN h.d.MachineName ELSE h.d.KeyName

\* C38: PreCreateCheck of the amazonec2 driver returns an error, and goes
\* no further than DescribeKeyPairs, when the key pair the caller named is
\* not found, when the key pair named after the machine exists, and when
\* DescribeKeyPairs answers with any error other than not-found.
C38_KeyLookupFailureIsReturned ==
    \A i \in DOMAIN hist :
      hist[i].op = "amazonec2.PreCreateCheck" =>
        LET h == hist[i]
            lookupFails == h.fails \cap {"DescribeKeyPairs", "DescribeKeyPairs.transport"} # {}
            found == LookedUpKey(h) \in h.cloud.keyPairs
            stopped == h.err # nil /\ Len(h.calls) = 1
        IN
        /\ (~lookupFails /\ h.d.KeyName # "" /\ ~found) =>
              stopped /\ h.err = "There is no keypair with the name"
        /\ (~lookupFails /\ h.d.KeyName = "" /\ found) =>
              stopped /\ h.err = "There is already a keypair with the name"
        /\ lookupFails => stopped


(***************************************************************************)
(* The region and the image SetConfigFromFlags leaves on the driver.       *)
(***************************************************************************)
\* C39: SetConfigFromFlags of the amazonec2 driver returns, with no error
\* or with an error, for every combination of its options, and never ends
\* the process; with an endpoint, a region the region table does not hold
\* and no image it returns and has assigned d.Region and d.AMI from the
\* options.
C39_SetConfigAlwaysReturns ==
    \A i \in DOMAIN hist :
      hist[i].op = "amazonec2.SetConfigFromFlags" =>
        /\ hist[i].err # nilPointerPanic
        /\ (/\ hist[i].input.endpoint # ""
            /\ hist[i].input.region \notin DOMAIN regionDetails
            /\ hist[i].input.ami = "") =>
              /\ hist[i].dAfter.Region = validateAwsRegion(hist[i].input.region).region
              /\ hist[i].dAfter.AMI # nilPointerPanic


====
